---- MODULE Spec2Model ----
(***************************************************************************)
(* State-machine model of the WeSolve matching backend: the Express        *)
(* routes of the API server and the relational store (users, problems,     *)
(* problem_matches) they query.                                            *)
(*                                                                         *)
(* Strings are sequences of characters, so that the UUID shape test and    *)
(* the store's uuid parsing are computed character by character. An ASCII  *)
(* character is the one-character string; any other character is written   *)
(* by its code point, "U+00DF".                                            *)
(* Columns of SQL type uuid hold parsed values (eight 16-bit groups), not  *)
(* text: the store parses on the way in and prints lowercase on the way    *)
(* out.                                                                    *)
(***************************************************************************)
EXTENDS Integers, Sequences, FiniteSets, Bags, TLC

\* ------------------------------------------------------------------------
\* Text
\* ------------------------------------------------------------------------

Rep(c, n) == [i \in 1..n |-> c]

\* the elements of a sequence of sequences, joined
RECURSIVE Flatten(_)
Flatten(ss) == IF ss = <<>> THEN <<>> ELSE Head(ss) \o Flatten(Tail(ss))

Lowers == <<"a","b","c","d","e","f","g","h","i","j","k","l","m",
            "n","o","p","q","r","s","t","u","v","w","x","y","z">>
Uppers == <<"A","B","C","D","E","F","G","H","I","J","K","L","M",
            "N","O","P","Q","R","S","T","U","V","W","X","Y","Z">>
HexDigits == <<"0","1","2","3","4","5","6","7","8","9","a","b","c","d","e","f">>

\* the small letters of Latin-1 that have a capital in Latin-1, and the capitals
Latin1Lowers == <<"U+00E0", "U+00E1", "U+00E2", "U+00E3", "U+00E4", "U+00E5", "U+00E6",
                  "U+00E7", "U+00E8", "U+00E9", "U+00EA", "U+00EB", "U+00EC", "U+00ED",
                  "U+00EE", "U+00EF", "U+00F0", "U+00F1", "U+00F2", "U+00F3", "U+00F4",
                  "U+00F5", "U+00F6", "U+00F8", "U+00F9", "U+00FA", "U+00FB", "U+00FC",
                  "U+00FD", "U+00FE">>
Latin1Uppers == <<"U+00C0", "U+00C1", "U+00C2", "U+00C3", "U+00C4", "U+00C5", "U+00C6",
                  "U+00C7", "U+00C8", "U+00C9", "U+00CA", "U+00CB", "U+00CC", "U+00CD",
                  "U+00CE", "U+00CF", "U+00D0", "U+00D1", "U+00D2", "U+00D3", "U+00D4",
                  "U+00D5", "U+00D6", "U+00D8", "U+00D9", "U+00DA", "U+00DB", "U+00DC",
                  "U+00DD", "U+00DE">>

IndexIn(c, s) == IF \E i \in DOMAIN s : s[i] = c
                 THEN CHOOSE i \in DOMAIN s : s[i] = c
                 ELSE 0

UpperSet == {Uppers[i] : i \in DOMAIN Uppers}
LowerSet == {Lowers[i] : i \in DOMAIN Lowers}
HexSet == {HexDigits[i] : i \in DOMAIN HexDigits}
Latin1LowerSet == {Latin1Lowers[i] : i \in DOMAIN Latin1Lowers}
Latin1UpperSet == {Latin1Uppers[i] : i \in DOMAIN Latin1Uppers}
LowerTable == [c \in UpperSet |-> Lowers[IndexIn(c, Uppers)]]
HexTable == [c \in HexSet |-> IndexIn(c, HexDigits) - 1]

\* Characters of Latin-1 and its neighbours whose capital is not the letter
\* 0x20 below them: sharp s, micro sign, y with diaeresis, dotless i, long s,
\* n preceded by apostrophe, and the ligatures ff, fi, fl.
SpecialUpper ==
    ("U+00DF" :> <<"S", "S">>) @@ ("U+00B5" :> <<"U+039C">>)
      @@ ("U+00FF" :> <<"U+0178">>) @@ ("U+0131" :> <<"I">>)
      @@ ("U+017F" :> <<"S">>) @@ ("U+0149" :> <<"U+02BC", "N">>)
      @@ ("U+FB00" :> <<"F", "F">>) @@ ("U+FB01" :> <<"F", "I">>)
      @@ ("U+FB02" :> <<"F", "L">>)

\* Every other character with a capital of one character (the simple uppercase
\* mapping of the Unicode character database), and the capitals in step
UnicodeLowers ==
    <<"U+0101", "U+0103", "U+0105", "U+0107", "U+0109", "U+010B", "U+010D", "U+010F",
      "U+0111", "U+0113", "U+0115", "U+0117", "U+0119", "U+011B", "U+011D", "U+011F",
      "U+0121", "U+0123", "U+0125", "U+0127", "U+0129", "U+012B", "U+012D", "U+012F",
      "U+0133", "U+0135", "U+0137", "U+013A", "U+013C", "U+013E", "U+0140", "U+0142",
      "U+0144", "U+0146", "U+0148", "U+014B", "U+014D", "U+014F", "U+0151", "U+0153",
      "U+0155", "U+0157", "U+0159", "U+015B", "U+015D", "U+015F", "U+0161", "U+0163",
      "U+0165", "U+0167", "U+0169", "U+016B", "U+016D", "U+016F", "U+0171", "U+0173",
      "U+0175", "U+0177", "U+017A", "U+017C", "U+017E", "U+0180", "U+0183", "U+0185",
      "U+0188", "U+018C", "U+0192", "U+0195", "U+0199", "U+019A", "U+019B", "U+019E",
      "U+01A1", "U+01A3", "U+01A5", "U+01A8", "U+01AD", "U+01B0", "U+01B4", "U+01B6",
      "U+01B9", "U+01BD", "U+01BF", "U+01C5", "U+01C6", "U+01C8", "U+01C9", "U+01CB",
      "U+01CC", "U+01CE", "U+01D0", "U+01D2", "U+01D4", "U+01D6", "U+01D8", "U+01DA",
      "U+01DC", "U+01DD", "U+01DF", "U+01E1", "U+01E3", "U+01E5", "U+01E7", "U+01E9",
      "U+01EB", "U+01ED", "U+01EF", "U+01F2", "U+01F3", "U+01F5", "U+01F9", "U+01FB",
      "U+01FD", "U+01FF", "U+0201", "U+0203", "U+0205", "U+0207", "U+0209", "U+020B",
      "U+020D", "U+020F", "U+0211", "U+0213", "U+0215", "U+0217", "U+0219", "U+021B",
      "U+021D", "U+021F", "U+0223", "U+0225", "U+0227", "U+0229", "U+022B", "U+022D",
      "U+022F", "U+0231", "U+0233", "U+023C", "U+023F", "U+0240", "U+0242", "U+0247",
      "U+0249", "U+024B", "U+024D", "U+024F", "U+0250", "U+0251", "U+0252", "U+0253",
      "U+0254", "U+0256", "U+0257", "U+0259", "U+025B", "U+025C", "U+0260", "U+0261",
      "U+0263", "U+0264", "U+0265", "U+0266", "U+0268", "U+0269", "U+026A", "U+026B",
      "U+026C", "U+026F", "U+0271", "U+0272", "U+0275", "U+027D", "U+0280", "U+0282",
      "U+0283", "U+0287", "U+0288", "U+0289", "U+028A", "U+028B", "U+028C", "U+0292",
      "U+029D", "U+029E", "U+0345", "U+0371", "U+0373", "U+0377", "U+037B", "U+037C",
      "U+037D", "U+03AC", "U+03AD", "U+03AE", "U+03AF", "U+03B1", "U+03B2", "U+03B3",
      "U+03B4", "U+03B5", "U+03B6", "U+03B7", "U+03B8", "U+03B9", "U+03BA", "U+03BB",
      "U+03BC", "U+03BD", "U+03BE", "U+03BF", "U+03C0", "U+03C1", "U+03C2", "U+03C3",
      "U+03C4", "U+03C5", "U+03C6", "U+03C7", "U+03C8", "U+03C9", "U+03CA", "U+03CB",
      "U+03CC", "U+03CD", "U+03CE", "U+03D0", "U+03D1", "U+03D5", "U+03D6", "U+03D7",
      "U+03D9", "U+03DB", "U+03DD", "U+03DF", "U+03E1", "U+03E3", "U+03E5", "U+03E7",
      "U+03E9", "U+03EB", "U+03ED", "U+03EF", "U+03F0", "U+03F1", "U+03F2", "U+03F3",
      "U+03F5", "U+03F8", "U+03FB", "U+0430", "U+0431", "U+0432", "U+0433", "U+0434",
      "U+0435", "U+0436", "U+0437", "U+0438", "U+0439", "U+043A", "U+043B", "U+043C",
      "U+043D", "U+043E", "U+043F", "U+0440", "U+0441", "U+0442", "U+0443", "U+0444",
      "U+0445", "U+0446", "U+0447", "U+0448", "U+0449", "U+044A", "U+044B", "U+044C",
      "U+044D", "U+044E", "U+044F", "U+0450", "U+0451", "U+0452", "U+0453", "U+0454",
      "U+0455", "U+0456", "U+0457", "U+0458", "U+0459", "U+045A", "U+045B", "U+045C",
      "U+045D", "U+045E", "U+045F", "U+0461", "U+0463", "U+0465", "U+0467", "U+0469",
      "U+046B", "U+046D", "U+046F", "U+0471", "U+0473", "U+0475", "U+0477", "U+0479",
      "U+047B", "U+047D", "U+047F", "U+0481", "U+048B", "U+048D", "U+048F", "U+0491",
      "U+0493", "U+0495", "U+0497", "U+0499", "U+049B", "U+049D", "U+049F", "U+04A1",
      "U+04A3", "U+04A5", "U+04A7", "U+04A9", "U+04AB", "U+04AD", "U+04AF", "U+04B1",
      "U+04B3", "U+04B5", "U+04B7", "U+04B9", "U+04BB", "U+04BD", "U+04BF", "U+04C2",
      "U+04C4", "U+04C6", "U+04C8", "U+04CA", "U+04CC", "U+04CE", "U+04CF", "U+04D1",
      "U+04D3", "U+04D5", "U+04D7", "U+04D9", "U+04DB", "U+04DD", "U+04DF", "U+04E1",
      "U+04E3", "U+04E5", "U+04E7", "U+04E9", "U+04EB", "U+04ED", "U+04EF", "U+04F1",
      "U+04F3", "U+04F5", "U+04F7", "U+04F9", "U+04FB", "U+04FD", "U+04FF", "U+0501",
      "U+0503", "U+0505", "U+0507", "U+0509", "U+050B", "U+050D", "U+050F", "U+0511",
      "U+0513", "U+0515", "U+0517", "U+0519", "U+051B", "U+051D", "U+051F", "U+0521",
      "U+0523", "U+0525", "U+0527", "U+0529", "U+052B", "U+052D", "U+052F", "U+0561",
      "U+0562", "U+0563", "U+0564", "U+0565", "U+0566", "U+0567", "U+0568", "U+0569",
      "U+056A", "U+056B", "U+056C", "U+056D", "U+056E", "U+056F", "U+0570", "U+0571",
      "U+0572", "U+0573", "U+0574", "U+0575", "U+0576", "U+0577", "U+0578", "U+0579",
      "U+057A", "U+057B", "U+057C", "U+057D", "U+057E", "U+057F", "U+0580", "U+0581",
      "U+0582", "U+0583", "U+0584", "U+0585", "U+0586", "U+10D0", "U+10D1", "U+10D2",
      "U+10D3", "U+10D4", "U+10D5", "U+10D6", "U+10D7", "U+10D8", "U+10D9", "U+10DA",
      "U+10DB", "U+10DC", "U+10DD", "U+10DE", "U+10DF", "U+10E0", "U+10E1", "U+10E2",
      "U+10E3", "U+10E4", "U+10E5", "U+10E6", "U+10E7", "U+10E8", "U+10E9", "U+10EA",
      "U+10EB", "U+10EC", "U+10ED", "U+10EE", "U+10EF", "U+10F0", "U+10F1", "U+10F2",
      "U+10F3", "U+10F4", "U+10F5", "U+10F6", "U+10F7", "U+10F8", "U+10F9", "U+10FA",
      "U+10FD", "U+10FE", "U+10FF", "U+13F8", "U+13F9", "U+13FA", "U+13FB", "U+13FC",
      "U+13FD", "U+1C80", "U+1C81", "U+1C82", "U+1C83", "U+1C84", "U+1C85", "U+1C86",
      "U+1C87", "U+1C88", "U+1C8A", "U+1D79", "U+1D7D", "U+1D8E", "U+1E01", "U+1E03",
      "U+1E05", "U+1E07", "U+1E09", "U+1E0B", "U+1E0D", "U+1E0F", "U+1E11", "U+1E13",
      "U+1E15", "U+1E17", "U+1E19", "U+1E1B", "U+1E1D", "U+1E1F", "U+1E21", "U+1E23",
      "U+1E25", "U+1E27", "U+1E29", "U+1E2B", "U+1E2D", "U+1E2F", "U+1E31", "U+1E33",
      "U+1E35", "U+1E37", "U+1E39", "U+1E3B", "U+1E3D", "U+1E3F", "U+1E41", "U+1E43",
      "U+1E45", "U+1E47", "U+1E49", "U+1E4B", "U+1E4D", "U+1E4F", "U+1E51", "U+1E53",
      "U+1E55", "U+1E57", "U+1E59", "U+1E5B", "U+1E5D", "U+1E5F", "U+1E61", "U+1E63",
      "U+1E65", "U+1E67", "U+1E69", "U+1E6B", "U+1E6D", "U+1E6F", "U+1E71", "U+1E73",
      "U+1E75", "U+1E77", "U+1E79", "U+1E7B", "U+1E7D", "U+1E7F", "U+1E81", "U+1E83",
      "U+1E85", "U+1E87", "U+1E89", "U+1E8B", "U+1E8D", "U+1E8F", "U+1E91", "U+1E93",
      "U+1E95", "U+1E9B", "U+1EA1", "U+1EA3", "U+1EA5", "U+1EA7", "U+1EA9", "U+1EAB",
      "U+1EAD", "U+1EAF", "U+1EB1", "U+1EB3", "U+1EB5", "U+1EB7", "U+1EB9", "U+1EBB",
      "U+1EBD", "U+1EBF", "U+1EC1", "U+1EC3", "U+1EC5", "U+1EC7", "U+1EC9", "U+1ECB",
      "U+1ECD", "U+1ECF", "U+1ED1", "U+1ED3", "U+1ED5", "U+1ED7", "U+1ED9", "U+1EDB",
      "U+1EDD", "U+1EDF", "U+1EE1", "U+1EE3", "U+1EE5", "U+1EE7", "U+1EE9", "U+1EEB",
      "U+1EED", "U+1EEF", "U+1EF1", "U+1EF3", "U+1EF5", "U+1EF7", "U+1EF9", "U+1EFB",
      "U+1EFD", "U+1EFF", "U+1F00", "U+1F01", "U+1F02", "U+1F03", "U+1F04", "U+1F05",
      "U+1F06", "U+1F07", "U+1F10", "U+1F11", "U+1F12", "U+1F13", "U+1F14", "U+1F15",
      "U+1F20", "U+1F21", "U+1F22", "U+1F23", "U+1F24", "U+1F25", "U+1F26", "U+1F27",
      "U+1F30", "U+1F31", "U+1F32", "U+1F33", "U+1F34", "U+1F35", "U+1F36", "U+1F37",
      "U+1F40", "U+1F41", "U+1F42", "U+1F43", "U+1F44", "U+1F45", "U+1F51", "U+1F53",
      "U+1F55", "U+1F57", "U+1F60", "U+1F61", "U+1F62", "U+1F63", "U+1F64", "U+1F65",
      "U+1F66", "U+1F67", "U+1F70", "U+1F71", "U+1F72", "U+1F73", "U+1F74", "U+1F75",
      "U+1F76", "U+1F77", "U+1F78", "U+1F79", "U+1F7A", "U+1F7B", "U+1F7C", "U+1F7D",
      "U+1FB0", "U+1FB1", "U+1FBE", "U+1FD0", "U+1FD1", "U+1FE0", "U+1FE1", "U+1FE5",
      "U+214E", "U+2170", "U+2171", "U+2172", "U+2173", "U+2174", "U+2175", "U+2176",
      "U+2177", "U+2178", "U+2179", "U+217A", "U+217B", "U+217C", "U+217D", "U+217E",
      "U+217F", "U+2184", "U+24D0", "U+24D1", "U+24D2", "U+24D3", "U+24D4", "U+24D5",
      "U+24D6", "U+24D7", "U+24D8", "U+24D9", "U+24DA", "U+24DB", "U+24DC", "U+24DD",
      "U+24DE", "U+24DF", "U+24E0", "U+24E1", "U+24E2", "U+24E3", "U+24E4", "U+24E5",
      "U+24E6", "U+24E7", "U+24E8", "U+24E9", "U+2C30", "U+2C31", "U+2C32", "U+2C33",
      "U+2C34", "U+2C35", "U+2C36", "U+2C37", "U+2C38", "U+2C39", "U+2C3A", "U+2C3B",
      "U+2C3C", "U+2C3D", "U+2C3E", "U+2C3F", "U+2C40", "U+2C41", "U+2C42", "U+2C43",
      "U+2C44", "U+2C45", "U+2C46", "U+2C47", "U+2C48", "U+2C49", "U+2C4A", "U+2C4B",
      "U+2C4C", "U+2C4D", "U+2C4E", "U+2C4F", "U+2C50", "U+2C51", "U+2C52", "U+2C53",
      "U+2C54", "U+2C55", "U+2C56", "U+2C57", "U+2C58", "U+2C59", "U+2C5A", "U+2C5B",
      "U+2C5C", "U+2C5D", "U+2C5E", "U+2C5F", "U+2C61", "U+2C65", "U+2C66", "U+2C68",
      "U+2C6A", "U+2C6C", "U+2C73", "U+2C76", "U+2C81", "U+2C83", "U+2C85", "U+2C87",
      "U+2C89", "U+2C8B", "U+2C8D", "U+2C8F", "U+2C91", "U+2C93", "U+2C95", "U+2C97",
      "U+2C99", "U+2C9B", "U+2C9D", "U+2C9F", "U+2CA1", "U+2CA3", "U+2CA5", "U+2CA7",
      "U+2CA9", "U+2CAB", "U+2CAD", "U+2CAF", "U+2CB1", "U+2CB3", "U+2CB5", "U+2CB7",
      "U+2CB9", "U+2CBB", "U+2CBD", "U+2CBF", "U+2CC1", "U+2CC3", "U+2CC5", "U+2CC7",
      "U+2CC9", "U+2CCB", "U+2CCD", "U+2CCF", "U+2CD1", "U+2CD3", "U+2CD5", "U+2CD7",
      "U+2CD9", "U+2CDB", "U+2CDD", "U+2CDF", "U+2CE1", "U+2CE3", "U+2CEC", "U+2CEE",
      "U+2CF3", "U+2D00", "U+2D01", "U+2D02", "U+2D03", "U+2D04", "U+2D05", "U+2D06",
      "U+2D07", "U+2D08", "U+2D09", "U+2D0A", "U+2D0B", "U+2D0C", "U+2D0D", "U+2D0E",
      "U+2D0F", "U+2D10", "U+2D11", "U+2D12", "U+2D13", "U+2D14", "U+2D15", "U+2D16",
      "U+2D17", "U+2D18", "U+2D19", "U+2D1A", "U+2D1B", "U+2D1C", "U+2D1D", "U+2D1E",
      "U+2D1F", "U+2D20", "U+2D21", "U+2D22", "U+2D23", "U+2D24", "U+2D25", "U+2D27",
      "U+2D2D", "U+A641", "U+A643", "U+A645", "U+A647", "U+A649", "U+A64B", "U+A64D",
      "U+A64F", "U+A651", "U+A653", "U+A655", "U+A657", "U+A659", "U+A65B", "U+A65D",
      "U+A65F", "U+A661", "U+A663", "U+A665", "U+A667", "U+A669", "U+A66B", "U+A66D",
      "U+A681", "U+A683", "U+A685", "U+A687", "U+A689", "U+A68B", "U+A68D", "U+A68F",
      "U+A691", "U+A693", "U+A695", "U+A697", "U+A699", "U+A69B", "U+A723", "U+A725",
      "U+A727", "U+A729", "U+A72B", "U+A72D", "U+A72F", "U+A733", "U+A735", "U+A737",
      "U+A739", "U+A73B", "U+A73D", "U+A73F", "U+A741", "U+A743", "U+A745", "U+A747",
      "U+A749", "U+A74B", "U+A74D", "U+A74F", "U+A751", "U+A753", "U+A755", "U+A757",
      "U+A759", "U+A75B", "U+A75D", "U+A75F", "U+A761", "U+A763", "U+A765", "U+A767",
      "U+A769", "U+A76B", "U+A76D", "U+A76F", "U+A77A", "U+A77C", "U+A77F", "U+A781",
      "U+A783", "U+A785", "U+A787", "U+A78C", "U+A791", "U+A793", "U+A794", "U+A797",
      "U+A799", "U+A79B", "U+A79D", "U+A79F", "U+A7A1", "U+A7A3", "U+A7A5", "U+A7A7",
      "U+A7A9", "U+A7B5", "U+A7B7", "U+A7B9", "U+A7BB", "U+A7BD", "U+A7BF", "U+A7C1",
      "U+A7C3", "U+A7C8", "U+A7CA", "U+A7CD", "U+A7CF", "U+A7D1", "U+A7D3", "U+A7D5",
      "U+A7D7", "U+A7D9", "U+A7DB", "U+A7F6", "U+AB53", "U+AB70", "U+AB71", "U+AB72",
      "U+AB73", "U+AB74", "U+AB75", "U+AB76", "U+AB77", "U+AB78", "U+AB79", "U+AB7A",
      "U+AB7B", "U+AB7C", "U+AB7D", "U+AB7E", "U+AB7F", "U+AB80", "U+AB81", "U+AB82",
      "U+AB83", "U+AB84", "U+AB85", "U+AB86", "U+AB87", "U+AB88", "U+AB89", "U+AB8A",
      "U+AB8B", "U+AB8C", "U+AB8D", "U+AB8E", "U+AB8F", "U+AB90", "U+AB91", "U+AB92",
      "U+AB93", "U+AB94", "U+AB95", "U+AB96", "U+AB97", "U+AB98", "U+AB99", "U+AB9A",
      "U+AB9B", "U+AB9C", "U+AB9D", "U+AB9E", "U+AB9F", "U+ABA0", "U+ABA1", "U+ABA2",
      "U+ABA3", "U+ABA4", "U+ABA5", "U+ABA6", "U+ABA7", "U+ABA8", "U+ABA9", "U+ABAA",
      "U+ABAB", "U+ABAC", "U+ABAD", "U+ABAE", "U+ABAF", "U+ABB0", "U+ABB1", "U+ABB2",
      "U+ABB3", "U+ABB4", "U+ABB5", "U+ABB6", "U+ABB7", "U+ABB8", "U+ABB9", "U+ABBA",
      "U+ABBB", "U+ABBC", "U+ABBD", "U+ABBE", "U+ABBF", "U+FF41", "U+FF42", "U+FF43",
      "U+FF44", "U+FF45", "U+FF46", "U+FF47", "U+FF48", "U+FF49", "U+FF4A", "U+FF4B",
      "U+FF4C", "U+FF4D", "U+FF4E", "U+FF4F", "U+FF50", "U+FF51", "U+FF52", "U+FF53",
      "U+FF54", "U+FF55", "U+FF56", "U+FF57", "U+FF58", "U+FF59", "U+FF5A", "U+10428",
      "U+10429", "U+1042A", "U+1042B", "U+1042C", "U+1042D", "U+1042E", "U+1042F", "U+10430",
      "U+10431", "U+10432", "U+10433", "U+10434", "U+10435", "U+10436", "U+10437", "U+10438",
      "U+10439", "U+1043A", "U+1043B", "U+1043C", "U+1043D", "U+1043E", "U+1043F", "U+10440",
      "U+10441", "U+10442", "U+10443", "U+10444", "U+10445", "U+10446", "U+10447", "U+10448",
      "U+10449", "U+1044A", "U+1044B", "U+1044C", "U+1044D", "U+1044E", "U+1044F", "U+104D8",
      "U+104D9", "U+104DA", "U+104DB", "U+104DC", "U+104DD", "U+104DE", "U+104DF", "U+104E0",
      "U+104E1", "U+104E2", "U+104E3", "U+104E4", "U+104E5", "U+104E6", "U+104E7", "U+104E8",
      "U+104E9", "U+104EA", "U+104EB", "U+104EC", "U+104ED", "U+104EE", "U+104EF", "U+104F0",
      "U+104F1", "U+104F2", "U+104F3", "U+104F4", "U+104F5", "U+104F6", "U+104F7", "U+104F8",
      "U+104F9", "U+104FA", "U+104FB", "U+10597", "U+10598", "U+10599", "U+1059A", "U+1059B",
      "U+1059C", "U+1059D", "U+1059E", "U+1059F", "U+105A0", "U+105A1", "U+105A3", "U+105A4",
      "U+105A5", "U+105A6", "U+105A7", "U+105A8", "U+105A9", "U+105AA", "U+105AB", "U+105AC",
      "U+105AD", "U+105AE", "U+105AF", "U+105B0", "U+105B1", "U+105B3", "U+105B4", "U+105B5",
      "U+105B6", "U+105B7", "U+105B8", "U+105B9", "U+105BB", "U+105BC", "U+10CC0", "U+10CC1",
      "U+10CC2", "U+10CC3", "U+10CC4", "U+10CC5", "U+10CC6", "U+10CC7", "U+10CC8", "U+10CC9",
      "U+10CCA", "U+10CCB", "U+10CCC", "U+10CCD", "U+10CCE", "U+10CCF", "U+10CD0", "U+10CD1",
      "U+10CD2", "U+10CD3", "U+10CD4", "U+10CD5", "U+10CD6", "U+10CD7", "U+10CD8", "U+10CD9",
      "U+10CDA", "U+10CDB", "U+10CDC", "U+10CDD", "U+10CDE", "U+10CDF", "U+10CE0", "U+10CE1",
      "U+10CE2", "U+10CE3", "U+10CE4", "U+10CE5", "U+10CE6", "U+10CE7", "U+10CE8", "U+10CE9",
      "U+10CEA", "U+10CEB", "U+10CEC", "U+10CED", "U+10CEE", "U+10CEF", "U+10CF0", "U+10CF1",
      "U+10CF2", "U+10D70", "U+10D71", "U+10D72", "U+10D73", "U+10D74", "U+10D75", "U+10D76",
      "U+10D77", "U+10D78", "U+10D79", "U+10D7A", "U+10D7B", "U+10D7C", "U+10D7D", "U+10D7E",
      "U+10D7F", "U+10D80", "U+10D81", "U+10D82", "U+10D83", "U+10D84", "U+10D85", "U+118C0",
      "U+118C1", "U+118C2", "U+118C3", "U+118C4", "U+118C5", "U+118C6", "U+118C7", "U+118C8",
      "U+118C9", "U+118CA", "U+118CB", "U+118CC", "U+118CD", "U+118CE", "U+118CF", "U+118D0",
      "U+118D1", "U+118D2", "U+118D3", "U+118D4", "U+118D5", "U+118D6", "U+118D7", "U+118D8",
      "U+118D9", "U+118DA", "U+118DB", "U+118DC", "U+118DD", "U+118DE", "U+118DF", "U+16E60",
      "U+16E61", "U+16E62", "U+16E63", "U+16E64", "U+16E65", "U+16E66", "U+16E67", "U+16E68",
      "U+16E69", "U+16E6A", "U+16E6B", "U+16E6C", "U+16E6D", "U+16E6E", "U+16E6F", "U+16E70",
      "U+16E71", "U+16E72", "U+16E73", "U+16E74", "U+16E75", "U+16E76", "U+16E77", "U+16E78",
      "U+16E79", "U+16E7A", "U+16E7B", "U+16E7C", "U+16E7D", "U+16E7E", "U+16E7F", "U+16EBB",
      "U+16EBC", "U+16EBD", "U+16EBE", "U+16EBF", "U+16EC0", "U+16EC1", "U+16EC2", "U+16EC3",
      "U+16EC4", "U+16EC5", "U+16EC6", "U+16EC7", "U+16EC8", "U+16EC9", "U+16ECA", "U+16ECB",
      "U+16ECC", "U+16ECD", "U+16ECE", "U+16ECF", "U+16ED0", "U+16ED1", "U+16ED2", "U+16ED3",
      "U+1E922", "U+1E923", "U+1E924", "U+1E925", "U+1E926", "U+1E927", "U+1E928", "U+1E929",
      "U+1E92A", "U+1E92B", "U+1E92C", "U+1E92D", "U+1E92E", "U+1E92F", "U+1E930", "U+1E931",
      "U+1E932", "U+1E933", "U+1E934", "U+1E935", "U+1E936", "U+1E937", "U+1E938", "U+1E939",
      "U+1E93A", "U+1E93B", "U+1E93C", "U+1E93D", "U+1E93E", "U+1E93F", "U+1E940", "U+1E941",
      "U+1E942", "U+1E943">>

UnicodeUppers ==
    <<"U+0100", "U+0102", "U+0104", "U+0106", "U+0108", "U+010A", "U+010C", "U+010E",
      "U+0110", "U+0112", "U+0114", "U+0116", "U+0118", "U+011A", "U+011C", "U+011E",
      "U+0120", "U+0122", "U+0124", "U+0126", "U+0128", "U+012A", "U+012C", "U+012E",
      "U+0132", "U+0134", "U+0136", "U+0139", "U+013B", "U+013D", "U+013F", "U+0141",
      "U+0143", "U+0145", "U+0147", "U+014A", "U+014C", "U+014E", "U+0150", "U+0152",
      "U+0154", "U+0156", "U+0158", "U+015A", "U+015C", "U+015E", "U+0160", "U+0162",
      "U+0164", "U+0166", "U+0168", "U+016A", "U+016C", "U+016E", "U+0170", "U+0172",
      "U+0174", "U+0176", "U+0179", "U+017B", "U+017D", "U+0243", "U+0182", "U+0184",
      "U+0187", "U+018B", "U+0191", "U+01F6", "U+0198", "U+023D", "U+A7DC", "U+0220",
      "U+01A0", "U+01A2", "U+01A4", "U+01A7", "U+01AC", "U+01AF", "U+01B3", "U+01B5",
      "U+01B8", "U+01BC", "U+01F7", "U+01C4", "U+01C4", "U+01C7", "U+01C7", "U+01CA",
      "U+01CA", "U+01CD", "U+01CF", "U+01D1", "U+01D3", "U+01D5", "U+01D7", "U+01D9",
      "U+01DB", "U+018E", "U+01DE", "U+01E0", "U+01E2", "U+01E4", "U+01E6", "U+01E8",
      "U+01EA", "U+01EC", "U+01EE", "U+01F1", "U+01F1", "U+01F4", "U+01F8", "U+01FA",
      "U+01FC", "U+01FE", "U+0200", "U+0202", "U+0204", "U+0206", "U+0208", "U+020A",
      "U+020C", "U+020E", "U+0210", "U+0212", "U+0214", "U+0216", "U+0218", "U+021A",
      "U+021C", "U+021E", "U+0222", "U+0224", "U+0226", "U+0228", "U+022A", "U+022C",
      "U+022E", "U+0230", "U+0232", "U+023B", "U+2C7E", "U+2C7F", "U+0241", "U+0246",
      "U+0248", "U+024A", "U+024C", "U+024E", "U+2C6F", "U+2C6D", "U+2C70", "U+0181",
      "U+0186", "U+0189", "U+018A", "U+018F", "U+0190", "U+A7AB", "U+0193", "U+A7AC",
      "U+0194", "U+A7CB", "U+A78D", "U+A7AA", "U+0197", "U+0196", "U+A7AE", "U+2C62",
      "U+A7AD", "U+019C", "U+2C6E", "U+019D", "U+019F", "U+2C64", "U+01A6", "U+A7C5",
      "U+01A9", "U+A7B1", "U+01AE", "U+0244", "U+01B1", "U+01B2", "U+0245", "U+01B7",
      "U+A7B2", "U+A7B0", "U+0399", "U+0370", "U+0372", "U+0376", "U+03FD", "U+03FE",
      "U+03FF", "U+0386", "U+0388", "U+0389", "U+038A", "U+0391", "U+0392", "U+0393",
      "U+0394", "U+0395", "U+0396", "U+0397", "U+0398", "U+0399", "U+039A", "U+039B",
      "U+039C", "U+039D", "U+039E", "U+039F", "U+03A0", "U+03A1", "U+03A3", "U+03A3",
      "U+03A4", "U+03A5", "U+03A6", "U+03A7", "U+03A8", "U+03A9", "U+03AA", "U+03AB",
      "U+038C", "U+038E", "U+038F", "U+0392", "U+0398", "U+03A6", "U+03A0", "U+03CF",
      "U+03D8", "U+03DA", "U+03DC", "U+03DE", "U+03E0", "U+03E2", "U+03E4", "U+03E6",
      "U+03E8", "U+03EA", "U+03EC", "U+03EE", "U+039A", "U+03A1", "U+03F9", "U+037F",
      "U+0395", "U+03F7", "U+03FA", "U+0410", "U+0411", "U+0412", "U+0413", "U+0414",
      "U+0415", "U+0416", "U+0417", "U+0418", "U+0419", "U+041A", "U+041B", "U+041C",
      "U+041D", "U+041E", "U+041F", "U+0420", "U+0421", "U+0422", "U+0423", "U+0424",
      "U+0425", "U+0426", "U+0427", "U+0428", "U+0429", "U+042A", "U+042B", "U+042C",
      "U+042D", "U+042E", "U+042F", "U+0400", "U+0401", "U+0402", "U+0403", "U+0404",
      "U+0405", "U+0406", "U+0407", "U+0408", "U+0409", "U+040A", "U+040B", "U+040C",
      "U+040D", "U+040E", "U+040F", "U+0460", "U+0462", "U+0464", "U+0466", "U+0468",
      "U+046A", "U+046C", "U+046E", "U+0470", "U+0472", "U+0474", "U+0476", "U+0478",
      "U+047A", "U+047C", "U+047E", "U+0480", "U+048A", "U+048C", "U+048E", "U+0490",
      "U+0492", "U+0494", "U+0496", "U+0498", "U+049A", "U+049C", "U+049E", "U+04A0",
      "U+04A2", "U+04A4", "U+04A6", "U+04A8", "U+04AA", "U+04AC", "U+04AE", "U+04B0",
      "U+04B2", "U+04B4", "U+04B6", "U+04B8", "U+04BA", "U+04BC", "U+04BE", "U+04C1",
      "U+04C3", "U+04C5", "U+04C7", "U+04C9", "U+04CB", "U+04CD", "U+04C0", "U+04D0",
      "U+04D2", "U+04D4", "U+04D6", "U+04D8", "U+04DA", "U+04DC", "U+04DE", "U+04E0",
      "U+04E2", "U+04E4", "U+04E6", "U+04E8", "U+04EA", "U+04EC", "U+04EE", "U+04F0",
      "U+04F2", "U+04F4", "U+04F6", "U+04F8", "U+04FA", "U+04FC", "U+04FE", "U+0500",
      "U+0502", "U+0504", "U+0506", "U+0508", "U+050A", "U+050C", "U+050E", "U+0510",
      "U+0512", "U+0514", "U+0516", "U+0518", "U+051A", "U+051C", "U+051E", "U+0520",
      "U+0522", "U+0524", "U+0526", "U+0528", "U+052A", "U+052C", "U+052E", "U+0531",
      "U+0532", "U+0533", "U+0534", "U+0535", "U+0536", "U+0537", "U+0538", "U+0539",
      "U+053A", "U+053B", "U+053C", "U+053D", "U+053E", "U+053F", "U+0540", "U+0541",
      "U+0542", "U+0543", "U+0544", "U+0545", "U+0546", "U+0547", "U+0548", "U+0549",
      "U+054A", "U+054B", "U+054C", "U+054D", "U+054E", "U+054F", "U+0550", "U+0551",
      "U+0552", "U+0553", "U+0554", "U+0555", "U+0556", "U+1C90", "U+1C91", "U+1C92",
      "U+1C93", "U+1C94", "U+1C95", "U+1C96", "U+1C97", "U+1C98", "U+1C99", "U+1C9A",
      "U+1C9B", "U+1C9C", "U+1C9D", "U+1C9E", "U+1C9F", "U+1CA0", "U+1CA1", "U+1CA2",
      "U+1CA3", "U+1CA4", "U+1CA5", "U+1CA6", "U+1CA7", "U+1CA8", "U+1CA9", "U+1CAA",
      "U+1CAB", "U+1CAC", "U+1CAD", "U+1CAE", "U+1CAF", "U+1CB0", "U+1CB1", "U+1CB2",
      "U+1CB3", "U+1CB4", "U+1CB5", "U+1CB6", "U+1CB7", "U+1CB8", "U+1CB9", "U+1CBA",
      "U+1CBD", "U+1CBE", "U+1CBF", "U+13F0", "U+13F1", "U+13F2", "U+13F3", "U+13F4",
      "U+13F5", "U+0412", "U+0414", "U+041E", "U+0421", "U+0422", "U+0422", "U+042A",
      "U+0462", "U+A64A", "U+1C89", "U+A77D", "U+2C63", "U+A7C6", "U+1E00", "U+1E02",
      "U+1E04", "U+1E06", "U+1E08", "U+1E0A", "U+1E0C", "U+1E0E", "U+1E10", "U+1E12",
      "U+1E14", "U+1E16", "U+1E18", "U+1E1A", "U+1E1C", "U+1E1E", "U+1E20", "U+1E22",
      "U+1E24", "U+1E26", "U+1E28", "U+1E2A", "U+1E2C", "U+1E2E", "U+1E30", "U+1E32",
      "U+1E34", "U+1E36", "U+1E38", "U+1E3A", "U+1E3C", "U+1E3E", "U+1E40", "U+1E42",
      "U+1E44", "U+1E46", "U+1E48", "U+1E4A", "U+1E4C", "U+1E4E", "U+1E50", "U+1E52",
      "U+1E54", "U+1E56", "U+1E58", "U+1E5A", "U+1E5C", "U+1E5E", "U+1E60", "U+1E62",
      "U+1E64", "U+1E66", "U+1E68", "U+1E6A", "U+1E6C", "U+1E6E", "U+1E70", "U+1E72",
      "U+1E74", "U+1E76", "U+1E78", "U+1E7A", "U+1E7C", "U+1E7E", "U+1E80", "U+1E82",
      "U+1E84", "U+1E86", "U+1E88", "U+1E8A", "U+1E8C", "U+1E8E", "U+1E90", "U+1E92",
      "U+1E94", "U+1E60", "U+1EA0", "U+1EA2", "U+1EA4", "U+1EA6", "U+1EA8", "U+1EAA",
      "U+1EAC", "U+1EAE", "U+1EB0", "U+1EB2", "U+1EB4", "U+1EB6", "U+1EB8", "U+1EBA",
      "U+1EBC", "U+1EBE", "U+1EC0", "U+1EC2", "U+1EC4", "U+1EC6", "U+1EC8", "U+1ECA",
      "U+1ECC", "U+1ECE", "U+1ED0", "U+1ED2", "U+1ED4", "U+1ED6", "U+1ED8", "U+1EDA",
      "U+1EDC", "U+1EDE", "U+1EE0", "U+1EE2", "U+1EE4", "U+1EE6", "U+1EE8", "U+1EEA",
      "U+1EEC", "U+1EEE", "U+1EF0", "U+1EF2", "U+1EF4", "U+1EF6", "U+1EF8", "U+1EFA",
      "U+1EFC", "U+1EFE", "U+1F08", "U+1F09", "U+1F0A", "U+1F0B", "U+1F0C", "U+1F0D",
      "U+1F0E", "U+1F0F", "U+1F18", "U+1F19", "U+1F1A", "U+1F1B", "U+1F1C", "U+1F1D",
      "U+1F28", "U+1F29", "U+1F2A", "U+1F2B", "U+1F2C", "U+1F2D", "U+1F2E", "U+1F2F",
      "U+1F38", "U+1F39", "U+1F3A", "U+1F3B", "U+1F3C", "U+1F3D", "U+1F3E", "U+1F3F",
      "U+1F48", "U+1F49", "U+1F4A", "U+1F4B", "U+1F4C", "U+1F4D", "U+1F59", "U+1F5B",
      "U+1F5D", "U+1F5F", "U+1F68", "U+1F69", "U+1F6A", "U+1F6B", "U+1F6C", "U+1F6D",
      "U+1F6E", "U+1F6F", "U+1FBA", "U+1FBB", "U+1FC8", "U+1FC9", "U+1FCA", "U+1FCB",
      "U+1FDA", "U+1FDB", "U+1FF8", "U+1FF9", "U+1FEA", "U+1FEB", "U+1FFA", "U+1FFB",
      "U+1FB8", "U+1FB9", "U+0399", "U+1FD8", "U+1FD9", "U+1FE8", "U+1FE9", "U+1FEC",
      "U+2132", "U+2160", "U+2161", "U+2162", "U+2163", "U+2164", "U+2165", "U+2166",
      "U+2167", "U+2168", "U+2169", "U+216A", "U+216B", "U+216C", "U+216D", "U+216E",
      "U+216F", "U+2183", "U+24B6", "U+24B7", "U+24B8", "U+24B9", "U+24BA", "U+24BB",
      "U+24BC", "U+24BD", "U+24BE", "U+24BF", "U+24C0", "U+24C1", "U+24C2", "U+24C3",
      "U+24C4", "U+24C5", "U+24C6", "U+24C7", "U+24C8", "U+24C9", "U+24CA", "U+24CB",
      "U+24CC", "U+24CD", "U+24CE", "U+24CF", "U+2C00", "U+2C01", "U+2C02", "U+2C03",
      "U+2C04", "U+2C05", "U+2C06", "U+2C07", "U+2C08", "U+2C09", "U+2C0A", "U+2C0B",
      "U+2C0C", "U+2C0D", "U+2C0E", "U+2C0F", "U+2C10", "U+2C11", "U+2C12", "U+2C13",
      "U+2C14", "U+2C15", "U+2C16", "U+2C17", "U+2C18", "U+2C19", "U+2C1A", "U+2C1B",
      "U+2C1C", "U+2C1D", "U+2C1E", "U+2C1F", "U+2C20", "U+2C21", "U+2C22", "U+2C23",
      "U+2C24", "U+2C25", "U+2C26", "U+2C27", "U+2C28", "U+2C29", "U+2C2A", "U+2C2B",
      "U+2C2C", "U+2C2D", "U+2C2E", "U+2C2F", "U+2C60", "U+023A", "U+023E", "U+2C67",
      "U+2C69", "U+2C6B", "U+2C72", "U+2C75", "U+2C80", "U+2C82", "U+2C84", "U+2C86",
      "U+2C88", "U+2C8A", "U+2C8C", "U+2C8E", "U+2C90", "U+2C92", "U+2C94", "U+2C96",
      "U+2C98", "U+2C9A", "U+2C9C", "U+2C9E", "U+2CA0", "U+2CA2", "U+2CA4", "U+2CA6",
      "U+2CA8", "U+2CAA", "U+2CAC", "U+2CAE", "U+2CB0", "U+2CB2", "U+2CB4", "U+2CB6",
      "U+2CB8", "U+2CBA", "U+2CBC", "U+2CBE", "U+2CC0", "U+2CC2", "U+2CC4", "U+2CC6",
      "U+2CC8", "U+2CCA", "U+2CCC", "U+2CCE", "U+2CD0", "U+2CD2", "U+2CD4", "U+2CD6",
      "U+2CD8", "U+2CDA", "U+2CDC", "U+2CDE", "U+2CE0", "U+2CE2", "U+2CEB", "U+2CED",
      "U+2CF2", "U+10A0", "U+10A1", "U+10A2", "U+10A3", "U+10A4", "U+10A5", "U+10A6",
      "U+10A7", "U+10A8", "U+10A9", "U+10AA", "U+10AB", "U+10AC", "U+10AD", "U+10AE",
      "U+10AF", "U+10B0", "U+10B1", "U+10B2", "U+10B3", "U+10B4", "U+10B5", "U+10B6",
      "U+10B7", "U+10B8", "U+10B9", "U+10BA", "U+10BB", "U+10BC", "U+10BD", "U+10BE",
      "U+10BF", "U+10C0", "U+10C1", "U+10C2", "U+10C3", "U+10C4", "U+10C5", "U+10C7",
      "U+10CD", "U+A640", "U+A642", "U+A644", "U+A646", "U+A648", "U+A64A", "U+A64C",
      "U+A64E", "U+A650", "U+A652", "U+A654", "U+A656", "U+A658", "U+A65A", "U+A65C",
      "U+A65E", "U+A660", "U+A662", "U+A664", "U+A666", "U+A668", "U+A66A", "U+A66C",
      "U+A680", "U+A682", "U+A684", "U+A686", "U+A688", "U+A68A", "U+A68C", "U+A68E",
      "U+A690", "U+A692", "U+A694", "U+A696", "U+A698", "U+A69A", "U+A722", "U+A724",
      "U+A726", "U+A728", "U+A72A", "U+A72C", "U+A72E", "U+A732", "U+A734", "U+A736",
      "U+A738", "U+A73A", "U+A73C", "U+A73E", "U+A740", "U+A742", "U+A744", "U+A746",
      "U+A748", "U+A74A", "U+A74C", "U+A74E", "U+A750", "U+A752", "U+A754", "U+A756",
      "U+A758", "U+A75A", "U+A75C", "U+A75E", "U+A760", "U+A762", "U+A764", "U+A766",
      "U+A768", "U+A76A", "U+A76C", "U+A76E", "U+A779", "U+A77B", "U+A77E", "U+A780",
      "U+A782", "U+A784", "U+A786", "U+A78B", "U+A790", "U+A792", "U+A7C4", "U+A796",
      "U+A798", "U+A79A", "U+A79C", "U+A79E", "U+A7A0", "U+A7A2", "U+A7A4", "U+A7A6",
      "U+A7A8", "U+A7B4", "U+A7B6", "U+A7B8", "U+A7BA", "U+A7BC", "U+A7BE", "U+A7C0",
      "U+A7C2", "U+A7C7", "U+A7C9", "U+A7CC", "U+A7CE", "U+A7D0", "U+A7D2", "U+A7D4",
      "U+A7D6", "U+A7D8", "U+A7DA", "U+A7F5", "U+A7B3", "U+13A0", "U+13A1", "U+13A2",
      "U+13A3", "U+13A4", "U+13A5", "U+13A6", "U+13A7", "U+13A8", "U+13A9", "U+13AA",
      "U+13AB", "U+13AC", "U+13AD", "U+13AE", "U+13AF", "U+13B0", "U+13B1", "U+13B2",
      "U+13B3", "U+13B4", "U+13B5", "U+13B6", "U+13B7", "U+13B8", "U+13B9", "U+13BA",
      "U+13BB", "U+13BC", "U+13BD", "U+13BE", "U+13BF", "U+13C0", "U+13C1", "U+13C2",
      "U+13C3", "U+13C4", "U+13C5", "U+13C6", "U+13C7", "U+13C8", "U+13C9", "U+13CA",
      "U+13CB", "U+13CC", "U+13CD", "U+13CE", "U+13CF", "U+13D0", "U+13D1", "U+13D2",
      "U+13D3", "U+13D4", "U+13D5", "U+13D6", "U+13D7", "U+13D8", "U+13D9", "U+13DA",
      "U+13DB", "U+13DC", "U+13DD", "U+13DE", "U+13DF", "U+13E0", "U+13E1", "U+13E2",
      "U+13E3", "U+13E4", "U+13E5", "U+13E6", "U+13E7", "U+13E8", "U+13E9", "U+13EA",
      "U+13EB", "U+13EC", "U+13ED", "U+13EE", "U+13EF", "U+FF21", "U+FF22", "U+FF23",
      "U+FF24", "U+FF25", "U+FF26", "U+FF27", "U+FF28", "U+FF29", "U+FF2A", "U+FF2B",
      "U+FF2C", "U+FF2D", "U+FF2E", "U+FF2F", "U+FF30", "U+FF31", "U+FF32", "U+FF33",
      "U+FF34", "U+FF35", "U+FF36", "U+FF37", "U+FF38", "U+FF39", "U+FF3A", "U+10400",
      "U+10401", "U+10402", "U+10403", "U+10404", "U+10405", "U+10406", "U+10407", "U+10408",
      "U+10409", "U+1040A", "U+1040B", "U+1040C", "U+1040D", "U+1040E", "U+1040F", "U+10410",
      "U+10411", "U+10412", "U+10413", "U+10414", "U+10415", "U+10416", "U+10417", "U+10418",
      "U+10419", "U+1041A", "U+1041B", "U+1041C", "U+1041D", "U+1041E", "U+1041F", "U+10420",
      "U+10421", "U+10422", "U+10423", "U+10424", "U+10425", "U+10426", "U+10427", "U+104B0",
      "U+104B1", "U+104B2", "U+104B3", "U+104B4", "U+104B5", "U+104B6", "U+104B7", "U+104B8",
      "U+104B9", "U+104BA", "U+104BB", "U+104BC", "U+104BD", "U+104BE", "U+104BF", "U+104C0",
      "U+104C1", "U+104C2", "U+104C3", "U+104C4", "U+104C5", "U+104C6", "U+104C7", "U+104C8",
      "U+104C9", "U+104CA", "U+104CB", "U+104CC", "U+104CD", "U+104CE", "U+104CF", "U+104D0",
      "U+104D1", "U+104D2", "U+104D3", "U+10570", "U+10571", "U+10572", "U+10573", "U+10574",
      "U+10575", "U+10576", "U+10577", "U+10578", "U+10579", "U+1057A", "U+1057C", "U+1057D",
      "U+1057E", "U+1057F", "U+10580", "U+10581", "U+10582", "U+10583", "U+10584", "U+10585",
      "U+10586", "U+10587", "U+10588", "U+10589", "U+1058A", "U+1058C", "U+1058D", "U+1058E",
      "U+1058F", "U+10590", "U+10591", "U+10592", "U+10594", "U+10595", "U+10C80", "U+10C81",
      "U+10C82", "U+10C83", "U+10C84", "U+10C85", "U+10C86", "U+10C87", "U+10C88", "U+10C89",
      "U+10C8A", "U+10C8B", "U+10C8C", "U+10C8D", "U+10C8E", "U+10C8F", "U+10C90", "U+10C91",
      "U+10C92", "U+10C93", "U+10C94", "U+10C95", "U+10C96", "U+10C97", "U+10C98", "U+10C99",
      "U+10C9A", "U+10C9B", "U+10C9C", "U+10C9D", "U+10C9E", "U+10C9F", "U+10CA0", "U+10CA1",
      "U+10CA2", "U+10CA3", "U+10CA4", "U+10CA5", "U+10CA6", "U+10CA7", "U+10CA8", "U+10CA9",
      "U+10CAA", "U+10CAB", "U+10CAC", "U+10CAD", "U+10CAE", "U+10CAF", "U+10CB0", "U+10CB1",
      "U+10CB2", "U+10D50", "U+10D51", "U+10D52", "U+10D53", "U+10D54", "U+10D55", "U+10D56",
      "U+10D57", "U+10D58", "U+10D59", "U+10D5A", "U+10D5B", "U+10D5C", "U+10D5D", "U+10D5E",
      "U+10D5F", "U+10D60", "U+10D61", "U+10D62", "U+10D63", "U+10D64", "U+10D65", "U+118A0",
      "U+118A1", "U+118A2", "U+118A3", "U+118A4", "U+118A5", "U+118A6", "U+118A7", "U+118A8",
      "U+118A9", "U+118AA", "U+118AB", "U+118AC", "U+118AD", "U+118AE", "U+118AF", "U+118B0",
      "U+118B1", "U+118B2", "U+118B3", "U+118B4", "U+118B5", "U+118B6", "U+118B7", "U+118B8",
      "U+118B9", "U+118BA", "U+118BB", "U+118BC", "U+118BD", "U+118BE", "U+118BF", "U+16E40",
      "U+16E41", "U+16E42", "U+16E43", "U+16E44", "U+16E45", "U+16E46", "U+16E47", "U+16E48",
      "U+16E49", "U+16E4A", "U+16E4B", "U+16E4C", "U+16E4D", "U+16E4E", "U+16E4F", "U+16E50",
      "U+16E51", "U+16E52", "U+16E53", "U+16E54", "U+16E55", "U+16E56", "U+16E57", "U+16E58",
      "U+16E59", "U+16E5A", "U+16E5B", "U+16E5C", "U+16E5D", "U+16E5E", "U+16E5F", "U+16EA0",
      "U+16EA1", "U+16EA2", "U+16EA3", "U+16EA4", "U+16EA5", "U+16EA6", "U+16EA7", "U+16EA8",
      "U+16EA9", "U+16EAA", "U+16EAB", "U+16EAC", "U+16EAD", "U+16EAE", "U+16EAF", "U+16EB0",
      "U+16EB1", "U+16EB2", "U+16EB3", "U+16EB4", "U+16EB5", "U+16EB6", "U+16EB7", "U+16EB8",
      "U+1E900", "U+1E901", "U+1E902", "U+1E903", "U+1E904", "U+1E905", "U+1E906", "U+1E907",
      "U+1E908", "U+1E909", "U+1E90A", "U+1E90B", "U+1E90C", "U+1E90D", "U+1E90E", "U+1E90F",
      "U+1E910", "U+1E911", "U+1E912", "U+1E913", "U+1E914", "U+1E915", "U+1E916", "U+1E917",
      "U+1E918", "U+1E919", "U+1E91A", "U+1E91B", "U+1E91C", "U+1E91D", "U+1E91E", "U+1E91F",
      "U+1E920", "U+1E921">>

\* Every other character whose capital is more than one character (the
\* unconditional mappings of SpecialCasing)
SpecialCasing ==
    ("U+01F0" :> <<"J", "U+030C">>)
      @@ ("U+0390" :> <<"U+0399", "U+0308", "U+0301">>)
      @@ ("U+03B0" :> <<"U+03A5", "U+0308", "U+0301">>)
      @@ ("U+0587" :> <<"U+0535", "U+0552">>)
      @@ ("U+1E96" :> <<"H", "U+0331">>)
      @@ ("U+1E97" :> <<"T", "U+0308">>)
      @@ ("U+1E98" :> <<"W", "U+030A">>)
      @@ ("U+1E99" :> <<"Y", "U+030A">>)
      @@ ("U+1E9A" :> <<"A", "U+02BE">>)
      @@ ("U+1F50" :> <<"U+03A5", "U+0313">>)
      @@ ("U+1F52" :> <<"U+03A5", "U+0313", "U+0300">>)
      @@ ("U+1F54" :> <<"U+03A5", "U+0313", "U+0301">>)
      @@ ("U+1F56" :> <<"U+03A5", "U+0313", "U+0342">>)
      @@ ("U+1F80" :> <<"U+1F08", "U+0399">>)
      @@ ("U+1F81" :> <<"U+1F09", "U+0399">>)
      @@ ("U+1F82" :> <<"U+1F0A", "U+0399">>)
      @@ ("U+1F83" :> <<"U+1F0B", "U+0399">>)
      @@ ("U+1F84" :> <<"U+1F0C", "U+0399">>)
      @@ ("U+1F85" :> <<"U+1F0D", "U+0399">>)
      @@ ("U+1F86" :> <<"U+1F0E", "U+0399">>)
      @@ ("U+1F87" :> <<"U+1F0F", "U+0399">>)
      @@ ("U+1F88" :> <<"U+1F08", "U+0399">>)
      @@ ("U+1F89" :> <<"U+1F09", "U+0399">>)
      @@ ("U+1F8A" :> <<"U+1F0A", "U+0399">>)
      @@ ("U+1F8B" :> <<"U+1F0B", "U+0399">>)
      @@ ("U+1F8C" :> <<"U+1F0C", "U+0399">>)
      @@ ("U+1F8D" :> <<"U+1F0D", "U+0399">>)
      @@ ("U+1F8E" :> <<"U+1F0E", "U+0399">>)
      @@ ("U+1F8F" :> <<"U+1F0F", "U+0399">>)
      @@ ("U+1F90" :> <<"U+1F28", "U+0399">>)
      @@ ("U+1F91" :> <<"U+1F29", "U+0399">>)
      @@ ("U+1F92" :> <<"U+1F2A", "U+0399">>)
      @@ ("U+1F93" :> <<"U+1F2B", "U+0399">>)
      @@ ("U+1F94" :> <<"U+1F2C", "U+0399">>)
      @@ ("U+1F95" :> <<"U+1F2D", "U+0399">>)
      @@ ("U+1F96" :> <<"U+1F2E", "U+0399">>)
      @@ ("U+1F97" :> <<"U+1F2F", "U+0399">>)
      @@ ("U+1F98" :> <<"U+1F28", "U+0399">>)
      @@ ("U+1F99" :> <<"U+1F29", "U+0399">>)
      @@ ("U+1F9A" :> <<"U+1F2A", "U+0399">>)
      @@ ("U+1F9B" :> <<"U+1F2B", "U+0399">>)
      @@ ("U+1F9C" :> <<"U+1F2C", "U+0399">>)
      @@ ("U+1F9D" :> <<"U+1F2D", "U+0399">>)
      @@ ("U+1F9E" :> <<"U+1F2E", "U+0399">>)
      @@ ("U+1F9F" :> <<"U+1F2F", "U+0399">>)
      @@ ("U+1FA0" :> <<"U+1F68", "U+0399">>)
      @@ ("U+1FA1" :> <<"U+1F69", "U+0399">>)
      @@ ("U+1FA2" :> <<"U+1F6A", "U+0399">>)
      @@ ("U+1FA3" :> <<"U+1F6B", "U+0399">>)
      @@ ("U+1FA4" :> <<"U+1F6C", "U+0399">>)
      @@ ("U+1FA5" :> <<"U+1F6D", "U+0399">>)
      @@ ("U+1FA6" :> <<"U+1F6E", "U+0399">>)
      @@ ("U+1FA7" :> <<"U+1F6F", "U+0399">>)
      @@ ("U+1FA8" :> <<"U+1F68", "U+0399">>)
      @@ ("U+1FA9" :> <<"U+1F69", "U+0399">>)
      @@ ("U+1FAA" :> <<"U+1F6A", "U+0399">>)
      @@ ("U+1FAB" :> <<"U+1F6B", "U+0399">>)
      @@ ("U+1FAC" :> <<"U+1F6C", "U+0399">>)
      @@ ("U+1FAD" :> <<"U+1F6D", "U+0399">>)
      @@ ("U+1FAE" :> <<"U+1F6E", "U+0399">>)
      @@ ("U+1FAF" :> <<"U+1F6F", "U+0399">>)
      @@ ("U+1FB2" :> <<"U+1FBA", "U+0399">>)
      @@ ("U+1FB3" :> <<"U+0391", "U+0399">>)
      @@ ("U+1FB4" :> <<"U+0386", "U+0399">>)
      @@ ("U+1FB6" :> <<"U+0391", "U+0342">>)
      @@ ("U+1FB7" :> <<"U+0391", "U+0342", "U+0399">>)
      @@ ("U+1FBC" :> <<"U+0391", "U+0399">>)
      @@ ("U+1FC2" :> <<"U+1FCA", "U+0399">>)
      @@ ("U+1FC3" :> <<"U+0397", "U+0399">>)
      @@ ("U+1FC4" :> <<"U+0389", "U+0399">>)
      @@ ("U+1FC6" :> <<"U+0397", "U+0342">>)
      @@ ("U+1FC7" :> <<"U+0397", "U+0342", "U+0399">>)
      @@ ("U+1FCC" :> <<"U+0397", "U+0399">>)
      @@ ("U+1FD2" :> <<"U+0399", "U+0308", "U+0300">>)
      @@ ("U+1FD3" :> <<"U+0399", "U+0308", "U+0301">>)
      @@ ("U+1FD6" :> <<"U+0399", "U+0342">>)
      @@ ("U+1FD7" :> <<"U+0399", "U+0308", "U+0342">>)
      @@ ("U+1FE2" :> <<"U+03A5", "U+0308", "U+0300">>)
      @@ ("U+1FE3" :> <<"U+03A5", "U+0308", "U+0301">>)
      @@ ("U+1FE4" :> <<"U+03A1", "U+0313">>)
      @@ ("U+1FE6" :> <<"U+03A5", "U+0342">>)
      @@ ("U+1FE7" :> <<"U+03A5", "U+0308", "U+0342">>)
      @@ ("U+1FF2" :> <<"U+1FFA", "U+0399">>)
      @@ ("U+1FF3" :> <<"U+03A9", "U+0399">>)
      @@ ("U+1FF4" :> <<"U+038F", "U+0399">>)
      @@ ("U+1FF6" :> <<"U+03A9", "U+0342">>)
      @@ ("U+1FF7" :> <<"U+03A9", "U+0342", "U+0399">>)
      @@ ("U+1FFC" :> <<"U+03A9", "U+0399">>)
      @@ ("U+FB03" :> <<"F", "F", "I">>)
      @@ ("U+FB04" :> <<"F", "F", "L">>)
      @@ ("U+FB05" :> <<"S", "T">>)
      @@ ("U+FB06" :> <<"S", "T">>)
      @@ ("U+FB13" :> <<"U+0544", "U+0546">>)
      @@ ("U+FB14" :> <<"U+0544", "U+0535">>)
      @@ ("U+FB15" :> <<"U+0544", "U+053B">>)
      @@ ("U+FB16" :> <<"U+054E", "U+0546">>)
      @@ ("U+FB17" :> <<"U+0544", "U+053D">>)

UnicodeLowerSet == {UnicodeLowers[i] : i \in DOMAIN UnicodeLowers}
UnicodeIndex == [c \in UnicodeLowerSet |-> IndexIn(c, UnicodeLowers)]

\* String.prototype.toUpperCase of one character: the characters it becomes
UpperTable ==
    [c \in LowerSet |-> <<Uppers[IndexIn(c, Lowers)]>>]
      @@ [c \in Latin1LowerSet |-> <<Latin1Uppers[IndexIn(c, Latin1Lowers)]>>]
      @@ SpecialUpper
      @@ [c \in UnicodeLowerSet |-> <<UnicodeUppers[UnicodeIndex[c]]>>]
      @@ SpecialCasing

\* the /i flag of a pattern of ASCII letters: one character, folded. A
\* character outside ASCII never folds to an ASCII letter.
LowerChar(c) == IF c \in UpperSet THEN LowerTable[c] ELSE c
toLowerCase(s) == [i \in DOMAIN s |-> LowerChar(s[i])]

\* String.prototype.toUpperCase: locale-independent, character by character,
\* a character without a capital taken as it is
UpperChar(c) == IF c \in DOMAIN UpperTable THEN UpperTable[c] ELSE <<c>>
toUpperCase(s) == Flatten([i \in DOMAIN s |-> UpperChar(s[i])])

\* the character class [0-9a-f] under the /i flag
IsHex(c) == LowerChar(c) \in HexSet

\* JSON / query values: a string, or something that is not a string
Str(s) == [t |-> "string", s |-> s]
Undefined == [t |-> "undefined", s |-> <<>>]
NumberValue == [t |-> "number", s |-> <<>>]
\* a query value given more than once or as x[]=: an array of strings, kept
\* with its elements joined by commas, which is its String()
RECURSIVE Join(_)
Join(items) == IF items = <<>> THEN <<>>
               ELSE IF Len(items) = 1 THEN items[1]
               ELSE items[1] \o <<",">> \o Join(Tail(items))
ArrayOf(items) == [t |-> "array", s |-> Join(items)]

\* /^[0-9a-f]{8}-[0-9a-f]{4}-[1-5][0-9a-f]{3}-[89ab][0-9a-f]{3}-[0-9a-f]{12}$/i
UuidPattern(s) ==
    /\ Len(s) = 36
    /\ \A i \in 1..36 :
         IF i \in {9, 14, 19, 24} THEN s[i] = "-"
         ELSE IF i = 15 THEN s[i] \in {"1","2","3","4","5"}
         ELSE IF i = 20 THEN LowerChar(s[i]) \in {"8","9","a","b"}
         ELSE IsHex(s[i])


\* ------------------------------------------------------------------------
\* The store's uuid type: text in, value, text out
\* ------------------------------------------------------------------------

HexVal(c) == HexTable[LowerChar(c)]

\* positions of the first hex digit of each 16-bit group in the 36-char text
GroupStart == <<1, 5, 10, 15, 20, 25, 29, 33>>

Group16(s, p) == HexVal(s[p]) * 4096 + HexVal(s[p+1]) * 256
                   + HexVal(s[p+2]) * 16 + HexVal(s[p+3])

\* uuid_in: parse the text form (case-insensitive) into the stored value
ParseUuid(s) == [g \in 1..8 |-> Group16(s, GroupStart[g])]

HexDigitOf(d) == HexDigits[d + 1]
Hex4(n) == << HexDigitOf((n \div 4096) % 16), HexDigitOf((n \div 256) % 16),
              HexDigitOf((n \div 16) % 16),   HexDigitOf(n % 16) >>

\* uuid_out: print the stored value, lowercase, 8-4-4-4-12
PrintUuid(u) == Hex4(u[1]) \o Hex4(u[2]) \o <<"-">> \o Hex4(u[3]) \o <<"-">>
                  \o Hex4(u[4]) \o <<"-">> \o Hex4(u[5]) \o <<"-">>
                  \o Hex4(u[6]) \o Hex4(u[7]) \o Hex4(u[8])

\* a UUID-shaped text made of one repeated hex digit c, version v, variant r
MkUuid(c, v, r) == Rep(c, 8) \o <<"-">> \o Rep(c, 4) \o <<"-">> \o <<v>> \o Rep(c, 3)
                     \o <<"-">> \o <<r>> \o Rep(c, 3) \o <<"-">> \o Rep(c, 12)

\* ------------------------------------------------------------------------
\* The fixed limits of the listings
\* ------------------------------------------------------------------------

\* GET /problems/:id/users: .limit(500)
CollaboratorLimit == 500
\* GET /me/matches: Number(req.query.limit ?? 200)
DefaultLimit == 200
\* GET /me/matches: Math.min(..., 500)
MaxLimit == 500

\* ------------------------------------------------------------------------
\* Identifiers and texts used as inputs
\* ------------------------------------------------------------------------

U1 == MkUuid("a", "4", "8")
U2 == MkUuid("b", "4", "9")
U3 == MkUuid("f", "4", "a")           \* the user the seed script inserts
U1Upper == toUpperCase(U1)            \* same uuid, written in capitals
GhostUser == MkUuid("c", "1", "a")    \* UUID-shaped, no such identity
P1 == MkUuid("1", "4", "8")
P2 == MkUuid("e", "5", "b")
P3 == MkUuid("3", "2", "9")
P2Upper == toUpperCase(P2)
GhostProblem == MkUuid("d", "3", "b") \* UUID-shaped, no such problem
NilUuid == MkUuid("0", "0", "0")      \* version 0: fails the pattern
ShortText == <<"a", "b", "c">>

\* Further identities and problems, as many as it takes to fill a listing to
\* its limit and beyond: the n-th id of the family c
CrowdText(c, n) ==
    <<c>> \o Rep("0", 7) \o <<"-">> \o Rep("0", 4) \o <<"-", "4">> \o Rep("0", 3)
        \o <<"-", "8">> \o Rep("0", 3) \o <<"-">> \o Rep("0", 8) \o Hex4(n)
CrowdUser(n) == CrowdText("9", n)
CrowdProblem(n) == CrowdText("7", n)
\* as many other collaborators as GET /problems/:id/users lists
CrowdUsers == {CrowdUser(n) : n \in 1..CollaboratorLimit}
\* one problem more than GET /me/matches ever lists
CrowdProblems == {CrowdProblem(n) : n \in 1..(MaxLimit + 1)}

\* Every text the requests below carry. The shape test and the uuid conversions
\* are computed once for these and looked up afterwards.
Texts == {U1, U2, U3, U1Upper, GhostUser, P1, P2, P3, P2Upper, GhostProblem, NilUuid, ShortText}
UuidShaped == {s \in Texts : UuidPattern(s)}
ParseTable == [s \in UuidShaped |-> ParseUuid(s)]
PrintTable == [u \in {ParseTable[s] : s \in UuidShaped} |-> PrintUuid(u)]

\* typeof v === 'string' && pattern.test(v)
isUuid(v) == /\ v.t = "string"
             /\ IF v.s \in Texts THEN v.s \in UuidShaped ELSE UuidPattern(v.s)

\* text to uuid value on the way into the store, and back on the way out
UuidIn(s) == IF s \in UuidShaped THEN ParseTable[s] ELSE ParseUuid(s)
UuidOut(u) == IF u \in DOMAIN PrintTable THEN PrintTable[u] ELSE PrintUuid(u)

SOLVER == <<"S","O","L","V","E","R">>
AFFECTED == <<"A","F","F","E","C","T","E","D">>
Roles == {SOLVER, AFFECTED}

\* ------------------------------------------------------------------------
\* Bounds
\* ------------------------------------------------------------------------

MaxTokens == 1      \* tokens login has signed so far
MaxInFlight == 2    \* setMatch requests between their two store queries
MaxAwaiting == 1    \* login and /me requests between their two halves
MaxDbTime == 1      \* ticks of the store's clock (now())
MaxTick == 1        \* single days the server clock advances inside a period

\* jwt.sign(..., { expiresIn: '30d' }); the server clock counts days
ExpiresIn == 30

\* ------------------------------------------------------------------------
\* State
\* ------------------------------------------------------------------------

VARIABLES
    users,            \* table users: the ids (uuid values) of its rows
    problems,         \* table problems: the ids of its rows
    problem_created,  \* table problems: per id, created_at of the row
    problem_matches,  \* table problem_matches: a bag of rows
    dbNow,            \* the store's clock, read by default now()
    clock,            \* the API server's clock, read by jwt.sign / jwt.verify
    issued,           \* the tokens POST /login has returned
    pending,          \* setMatch requests awaiting their upsert: a bag, two equal
                      \* requests in flight are two
    inflight,         \* login requests awaiting jwt.sign after their select, and
                      \* requests requireAuth has let through, awaiting the first
                      \* query of their handler: a bag
    resp,             \* the response sent by the step just taken
    before,           \* history: the rows of the written pair before that step
    written,          \* history: per pair, the role of its last applied upsert
                      \* since the pair's rows were last deleted
    seed              \* the seed script: the store calls it has completed

vars == <<users, problems, problem_created, problem_matches, dbNow, clock, issued,
          pending, inflight, resp, before, written, seed>>

NoResp == [op |-> "none", status |-> 0]

\* ------------------------------------------------------------------------
\* Auth (Bearer JWT)
\* ------------------------------------------------------------------------

\* jwt.sign({ sub: userId, typ: 'access' }, JWT_SECRET, { expiresIn: '30d' })
JwtSign(sub, now) ==
    [wellFormed |-> TRUE, sig |-> "good", sub |-> sub, typ |-> "access",
     exp |-> now + ExpiresIn]

\* variant: the expiry is not looked at
JwtVerifyIgnoresExpiry(token, now) == ~token.wellFormed \/ token.sig # "good"

\* jwt.verify(token, JWT_SECRET): throws on a malformed token, a signature that
\* does not verify, or an expired token (now >= exp); else returns the payload
JwtVerifyThrows(token, now) ==
    \/ ~token.wellFormed
    \/ token.sig # "good"
    \/ now >= token.exp

\* The Authorization header: absent, or scheme, whitespace and credential.
NoHeader == [present |-> FALSE, scheme |-> <<>>, spaces |-> 0,
             token |-> [wellFormed |-> FALSE, sig |-> "bad", sub |-> Undefined,
                        typ |-> "", exp |-> 0]]
Header(scheme, spaces, token) ==
    [present |-> TRUE, scheme |-> scheme, spaces |-> spaces, token |-> token]

BearerWord == <<"B","e","a","r","e","r">>
BasicWord == <<"B","a","s","i","c">>

\* header.match(/^Bearer\s+(.+)$/i)
BearerMatch(header) ==
    /\ header.present
    /\ toLowerCase(header.scheme) = toLowerCase(BearerWord)
    /\ header.spaces >= 1

\* requireAuth: 401 unless the header carries a verifiable token whose sub is a
\* uuid; otherwise req.userId = payload.sub and the handler runs
requireAuth(header, now) ==
    IF ~BearerMatch(header)
    THEN [ok |-> FALSE, status |-> 401, userId |-> Undefined]
    ELSE IF JwtVerifyThrows(header.token, now)
    THEN [ok |-> FALSE, status |-> 401, userId |-> Undefined]
    ELSE IF header.token.sub = Undefined \/ ~isUuid(header.token.sub)
    THEN [ok |-> FALSE, status |-> 401, userId |-> Undefined]
    ELSE [ok |-> TRUE, status |-> 200, userId |-> header.token.sub]

\* supabase.from('users').select(...).eq('id', userId).maybeSingle()
SelectUser(userId) ==
    IF UuidIn(userId.s) \in users
    THEN [found |-> TRUE, id |-> UuidOut(UuidIn(userId.s))]
    ELSE [found |-> FALSE, id |-> <<>>]

\* variant: the request goes on to jwt.sign without looking the user up
LoginStatusNoLookup(userId) == IF ~isUuid(userId) THEN 400 ELSE 0

\* POST /login up to its awaited select: 400, 404, or 0 when the request goes on
LoginStatus(userId) ==
    IF ~isUuid(userId) THEN 400
    ELSE IF ~SelectUser(userId).found THEN 404
    ELSE 0

LoginRequest(userId) == [op |-> "login", userId |-> userId, user |-> SelectUser(userId).id]

\* first half of the handler: the shape test and the select on users
LoginSelect(userId, cap) ==
    LET status == LoginStatus(userId) IN
    /\ IF status # 0
       THEN /\ resp' = [op |-> "login", userId |-> userId, status |-> status]
            /\ inflight' = inflight
       ELSE /\ resp' = NoResp
            /\ inflight' = inflight (+) SetToBag({LoginRequest(userId)})
            /\ BagCardinality(inflight') <= cap
    /\ before' = EmptyBag
    /\ UNCHANGED <<seed, users, problems, problem_created, problem_matches, dbNow, clock,
                   issued, pending, written>>

\* second half, after the select has answered: jwt.sign, which reads the
\* clock, and the response with the row the select found
LoginSign(req) ==
    /\ BagIn(req, inflight)
    /\ req.op = "login"
    /\ inflight' = inflight (-) SetToBag({req})
    /\ resp' = [op |-> "login", userId |-> req.userId, status |-> 200,
                token |-> JwtSign(req.userId, clock), user |-> req.user]
    /\ issued' = issued \cup {resp'.token}
    /\ Cardinality(issued') <= MaxTokens
    /\ before' = EmptyBag
    /\ UNCHANGED <<seed, users, problems, problem_created, problem_matches, dbNow, clock,
                   pending, written>>

\* GET /me, first half: requireAuth, which reads the clock; 401, or the
\* request goes on to its select
MeAuth(header, cap) ==
    LET auth == requireAuth(header, clock) IN
    /\ IF ~auth.ok
       THEN /\ resp' = [op |-> "me", header |-> header, status |-> auth.status]
            /\ inflight' = inflight
       ELSE /\ resp' = NoResp
            /\ inflight' = inflight (+) SetToBag({[op |-> "me", header |-> header,
                                                   userId |-> auth.userId]})
            /\ BagCardinality(inflight') <= cap
    /\ before' = EmptyBag
    /\ UNCHANGED <<seed, users, problems, problem_created, problem_matches, dbNow, clock,
                   issued, pending, written>>

\* the response of GET /me once its select on users has answered
MeResponse(header, userId) ==
    IF ~SelectUser(userId).found
    THEN [op |-> "me", header |-> header, status |-> 404, userId |-> userId]
    ELSE [op |-> "me", header |-> header, status |-> 200, userId |-> userId,
          user |-> SelectUser(userId).id]

\* GET /me, second half: the select and the response
MeSelect(req) ==
    /\ BagIn(req, inflight)
    /\ req.op = "me"
    /\ inflight' = inflight (-) SetToBag({req})
    /\ resp' = MeResponse(req.header, req.userId)
    /\ before' = EmptyBag
    /\ UNCHANGED <<seed, users, problems, problem_created, problem_matches, dbNow, clock,
                   issued, pending, written>>

\* The server's clock advances: by a day early in a token lifetime, or from
\* there to the eve or the day of expiry.
AdvanceClock(days) ==
    /\ \/ days = 1 /\ clock % ExpiresIn < MaxTick
       \/ days \in {ExpiresIn - 1, ExpiresIn} /\ clock <= MaxTick
    /\ clock' = clock + days
    /\ resp' = NoResp
    /\ before' = EmptyBag
    /\ UNCHANGED <<inflight, seed, users, problems, problem_created, problem_matches,
                   dbNow, issued, pending, written>>

\* ------------------------------------------------------------------------
\* The store: problem_matches
\* ------------------------------------------------------------------------

Row(u, p, role, at) == [user_id |-> u, problem_id |-> p, role |-> role, created_at |-> at]

\* the rows of the bag t that satisfy Keep
Restrict(t, Keep(_)) == [r \in {x \in DOMAIN t : Keep(x)} |-> t[r]]

\* rows of t for the pair (u, p)
PairRows(t, u, p) == Restrict(t, LAMBDA r : r.user_id = u /\ r.problem_id = p)

\* variant: the foreign keys are not declared
ForeignKeysOff(u, p) == TRUE

\* foreign keys of problem_matches: both parents must exist
ForeignKeysHold(u, p) == u \in users /\ p \in problems

\* check (role in ('SOLVER', 'AFFECTED'))
RoleCheckHolds(role) == role \in Roles

\* insert into problem_matches (user_id, problem_id, role) values (u, p, role)
\*   on conflict (user_id, problem_id) do update set the three payload columns.
\* created_at is not in the payload: default now() fills it on insert only.
\* the row the statement returns: the inserted row, or the updated one
Upserted(t, u, p, role, now) ==
    LET hit == BagToSet(PairRows(t, u, p)) IN
    IF hit = {}
    THEN Row(u, p, role, now)
    ELSE [(CHOOSE r \in hit : TRUE) EXCEPT !.role = role]

\* variant: no conflict target, every statement inserts
UpsertRowsAlwaysInsert(t, u, p, role, now) == t (+) SetToBag({Row(u, p, role, now)})

\* variant: on conflict do nothing (ignoreDuplicates)
UpsertRowsDoNothing(t, u, p, role, now) ==
    IF BagToSet(PairRows(t, u, p)) = {}
    THEN t (+) SetToBag({Row(u, p, role, now)})
    ELSE t

\* variant: on conflict keep the old role and take the later request's only if it
\* is SOLVER
UpsertRowsSolverWins(t, u, p, role, now) ==
    LET hit == BagToSet(PairRows(t, u, p)) IN
    IF hit = {}
    THEN t (+) SetToBag({Row(u, p, role, now)})
    ELSE IF role = <<"S","O","L","V","E","R">>
    THEN (t (-) SetToBag({CHOOSE r \in hit : TRUE}))
           (+) SetToBag({[(CHOOSE r \in hit : TRUE) EXCEPT !.role = role]})
    ELSE t

\* variant: on conflict the timestamp is refreshed too
UpsertRowsRefresh(t, u, p, role, now) ==
    LET hit == BagToSet(PairRows(t, u, p)) IN
    IF hit = {}
    THEN t (+) SetToBag({Row(u, p, role, now)})
    ELSE (t (-) SetToBag({CHOOSE r \in hit : TRUE})) (+) SetToBag({Row(u, p, role, now)})

\* the table after the statement
UpsertRows(t, u, p, role, now) ==
    LET hit == BagToSet(PairRows(t, u, p)) IN
    IF hit = {}
    THEN t (+) SetToBag({Upserted(t, u, p, role, now)})
    ELSE (t (-) SetToBag({CHOOSE r \in hit : TRUE}))
           (+) SetToBag({Upserted(t, u, p, role, now)})

\* variant: the delete is not narrowed to the user
DeleteRowsAnyUser(t, u, p) == Restrict(t, LAMBDA r : r.problem_id # p)

\* delete from problem_matches where user_id = u and problem_id = p
DeleteRows(t, u, p) == Restrict(t, LAMBDA r : ~(r.user_id = u /\ r.problem_id = p))

\* on delete cascade, from users and from problems
CascadeUser(t, gone) == Restrict(t, LAMBDA r : r.user_id \notin gone)
CascadeProblem(t, gone) == Restrict(t, LAMBDA r : r.problem_id \notin gone)

\* a row as the store prints it
RowOut(r) == [user_id |-> UuidOut(r.user_id), problem_id |-> UuidOut(r.problem_id),
              role |-> r.role, created_at |-> r.created_at]

\* supabase.from('problems').select('id').eq('id', problemId).maybeSingle()
SelectProblem(problemId) == UuidIn(problemId) \in problems

\* ------------------------------------------------------------------------
\* POST /problems/:id/match
\* ------------------------------------------------------------------------

\* variant: the role is not checked
SetMatchStatusNoRoleCheck(header, problemId, role) ==
    IF ~requireAuth(header, clock).ok THEN 401
    ELSE IF ~isUuid(Str(problemId)) THEN 400
    ELSE 0

\* requireAuth and the checks of the handler before its first await: 401, 400,
\* or 0 when the request goes on to its select
SetMatchStatus(header, problemId, role) ==
    IF ~requireAuth(header, clock).ok THEN 401
    ELSE IF ~isUuid(Str(problemId)) THEN 400
    ELSE IF role # Str(SOLVER) /\ role # Str(AFFECTED) THEN 400
    ELSE 0

SetMatchRequest(header, problemId, role) ==
    [op |-> "setMatch", userId |-> requireAuth(header, clock).userId.s,
     problemId |-> problemId, role |-> role]

\* the requests between requireAuth and their last query
InFlight == BagCardinality(inflight) + BagCardinality(pending)

\* The handler up to its first await: requireAuth, which reads the server's
\* clock, and the checks of the id and the role. The select on problems is
\* sent, and served in a later step.
SetMatchBegin(header, problemId, role, cap) ==
    LET status == SetMatchStatus(header, problemId, role) IN
    /\ IF status # 0
       THEN /\ resp' = [op |-> "setMatch", userId |-> requireAuth(header, clock).userId.s,
                        problemId |-> problemId, role |-> role, status |-> status]
            /\ inflight' = inflight
       ELSE /\ resp' = NoResp
            /\ inflight' = inflight (+) SetToBag({SetMatchRequest(header, problemId, role)})
            /\ InFlight < cap
    /\ before' = EmptyBag
    /\ UNCHANGED <<seed, users, problems, problem_created, problem_matches, dbNow, clock,
                   issued, pending, written>>

\* variant: the first query already writes the row, the second confirms it
SetMatchSelectWrites(req) ==
    /\ BagIn(req, inflight)
    /\ req.op = "setMatch"
    /\ inflight' = inflight (-) SetToBag({req})
    /\ IF ~SelectProblem(req.problemId)
       THEN /\ resp' = [op |-> "setMatch", userId |-> req.userId,
                        problemId |-> req.problemId, role |-> req.role, status |-> 404]
            /\ pending' = pending
            /\ problem_matches' = problem_matches
       ELSE /\ resp' = NoResp
            /\ pending' = pending (+) SetToBag({req})
            /\ problem_matches' =
                 IF UuidIn(req.userId) \in users
                 THEN UpsertRows(problem_matches, UuidIn(req.userId),
                                 UuidIn(req.problemId), req.role.s, dbNow)
                 ELSE problem_matches
    /\ before' = EmptyBag
    /\ UNCHANGED <<seed, users, problems, problem_created, dbNow, clock, issued, written>>

\* The store serves the select on problems: 404 when it finds no row, else
\* the handler sends its upsert.
SetMatchSelect(req) ==
    /\ BagIn(req, inflight)
    /\ req.op = "setMatch"
    /\ inflight' = inflight (-) SetToBag({req})
    /\ IF ~SelectProblem(req.problemId)
       THEN /\ resp' = [op |-> "setMatch", userId |-> req.userId,
                        problemId |-> req.problemId, role |-> req.role, status |-> 404]
            /\ pending' = pending
       ELSE /\ resp' = NoResp
            /\ pending' = pending (+) SetToBag({req})
    /\ before' = EmptyBag
    /\ UNCHANGED <<seed, users, problems, problem_created, problem_matches, dbNow, clock,
                   issued, written>>

Pair(u, p) == [user_id |-> u, problem_id |-> p]
Forget(w, Gone(_)) == {x \in w : ~Gone(x)}

\* The store serves the upsert, and the handler responds.
SetMatchUpsert(req) ==
    LET u == UuidIn(req.userId)
        p == UuidIn(req.problemId) IN
    /\ BagIn(req, pending)
    /\ pending' = pending (-) SetToBag({req})
    /\ before' = PairRows(problem_matches, u, p)
    /\ IF ForeignKeysHold(u, p) /\ RoleCheckHolds(req.role.s)
       THEN /\ problem_matches' = UpsertRows(problem_matches, u, p, req.role.s, dbNow)
            /\ resp' = [op |-> "setMatch", userId |-> req.userId,
                        problemId |-> req.problemId, role |-> req.role, status |-> 200,
                        match |-> RowOut(Upserted(problem_matches, u, p, req.role.s, dbNow))]
            /\ written' = Forget(written, LAMBDA x : x.pair = Pair(u, p))
                            \cup {[pair |-> Pair(u, p), role |-> req.role.s]}
       ELSE /\ problem_matches' = problem_matches
            /\ resp' = [op |-> "setMatch", userId |-> req.userId,
                        problemId |-> req.problemId, role |-> req.role, status |-> 500]
            /\ written' = written
    /\ UNCHANGED <<inflight, seed, users, problems, problem_created, dbNow, clock,
                   issued>>

\* ------------------------------------------------------------------------
\* DELETE /problems/:id/match
\* ------------------------------------------------------------------------

\* variant: the problem is looked up first, as setMatch does
RemoveMatchStatusLooksUp(header, problemId) ==
    IF ~requireAuth(header, clock).ok THEN 401
    ELSE IF ~isUuid(Str(problemId)) THEN 400
    ELSE IF ~SelectProblem(problemId) THEN 404
    ELSE 0

\* requireAuth and the check of the handler before its await: 401, 400, or 0
\* when the request goes on to its delete
RemoveMatchStatus(header, problemId) ==
    IF ~requireAuth(header, clock).ok THEN 401
    ELSE IF ~isUuid(Str(problemId)) THEN 400
    ELSE 0

\* The handler up to its await: requireAuth, which reads the server's clock,
\* and the check of the id. The delete is sent, and served in a later step.
RemoveMatchBegin(header, problemId, cap) ==
    LET status == RemoveMatchStatus(header, problemId)
        userId == requireAuth(header, clock).userId.s IN
    /\ IF status # 0
       THEN /\ resp' = [op |-> "removeMatch", userId |-> userId, problemId |-> problemId,
                        status |-> status]
            /\ inflight' = inflight
       ELSE /\ resp' = NoResp
            /\ inflight' = inflight (+) SetToBag({[op |-> "removeMatch", userId |-> userId,
                                                   problemId |-> problemId]})
            /\ InFlight < cap
    /\ before' = EmptyBag
    /\ UNCHANGED <<seed, users, problems, problem_created, problem_matches, dbNow, clock,
                   issued, pending, written>>

\* The store serves the delete, and the handler responds.
RemoveMatchDelete(req) ==
    LET u == UuidIn(req.userId)
        p == UuidIn(req.problemId) IN
    /\ BagIn(req, inflight)
    /\ req.op = "removeMatch"
    /\ inflight' = inflight (-) SetToBag({req})
    /\ resp' = [op |-> "removeMatch", userId |-> req.userId, problemId |-> req.problemId,
                status |-> 200]
    /\ problem_matches' = DeleteRows(problem_matches, u, p)
    /\ before' = PairRows(problem_matches, u, p)
    /\ written' = Forget(written, LAMBDA x : x.pair = Pair(u, p))
    /\ UNCHANGED <<seed, users, problems, problem_created, dbNow, clock, issued, pending>>

\* ------------------------------------------------------------------------
\* Listing queries
\* ------------------------------------------------------------------------

Min(a, b) == IF a <= b THEN a ELSE b

\* the rows of a bag, one entry per copy
Entries(t) == UNION {{[row |-> r, copy |-> i] : i \in 1..t[r]} : r \in DOMAIN t}

\* the arrangements of the finite set S in a row
RECURSIVE Perms(_)
Perms(S) ==
    IF S = {} THEN {<<>>}
    ELSE UNION {{<<x>> \o p : p \in Perms(S \ {x})} : x \in S}

\* a power of two, from b on, that exceeds every created_at of E in size
RECURSIVE Span(_, _)
Span(E, b) ==
    IF \A e \in E : -b < e.row.created_at /\ e.row.created_at < b THEN b
    ELSE Span(E, 2 * b)

\* the entries E, all with created_at in lo..hi, latest first; entries of
\* equal created_at in any order
RECURSIVE Descending(_, _, _)
Descending(E, lo, hi) ==
    IF E = {} THEN {<<>>}
    ELSE IF lo = hi THEN Perms(E)
    ELSE LET mid == (lo + hi) \div 2
             late == {e \in E : e.row.created_at > mid} IN
         {p \o q : p \in Descending(late, mid + 1, hi),
                   q \in Descending(E \ late, lo, mid)}

\* .order('created_at', { ascending: false }): every order the store may return,
\* rows of equal created_at in any order
OrderedDesc(t) ==
    LET E == Entries(t) IN Descending(E, -Span(E, 1), Span(E, 1))

\* .limit(n), n a non-negative integer
Limit(s, n) == SubSeq(s, 1, Min(n, Len(s)))

\* WhiteSpace and LineTerminator of ECMAScript: what trim() and Number() strip
WhiteSpace == {"\t", "\n", "\f", "\r", " ", "U+000B", "U+00A0", "U+1680", "U+2000",
               "U+2001", "U+2002", "U+2003", "U+2004", "U+2005", "U+2006", "U+2007",
               "U+2008", "U+2009", "U+200A", "U+2028", "U+2029", "U+202F", "U+205F",
               "U+3000", "U+FEFF"}
RECURSIVE TrimLeft(_)
TrimLeft(s) == IF s # <<>> /\ Head(s) \in WhiteSpace THEN TrimLeft(Tail(s)) ELSE s
RECURSIVE TrimRight(_)
TrimRight(s) == IF s # <<>> /\ s[Len(s)] \in WhiteSpace
                THEN TrimRight(SubSeq(s, 1, Len(s) - 1)) ELSE s
\* String.prototype.trim
trim(s) == TrimRight(TrimLeft(s))

\* variant: the query value is compared as written, without toUpperCase
RoleFilterCaseSensitive(roleQuery) ==
    LET role == IF roleQuery.t = "string" THEN trim(roleQuery.s) ELSE <<>> IN
    IF role = SOLVER \/ role = AFFECTED THEN role ELSE <<>>

\* GET /problems/:id/users: the role filter taken from the query string
RoleFilter(roleQuery) ==
    LET role == IF roleQuery.t = "string" THEN toUpperCase(trim(roleQuery.s)) ELSE <<>> IN
    IF role = SOLVER \/ role = AFFECTED THEN role ELSE <<>>

CollaboratorItem(r) ==
    [user |-> [id |-> UuidOut(r.user_id)], role |-> r.role, matched_at |-> r.created_at]

\* the item lists GET /problems/:id/users may answer with
CollaboratorItems(problemId, roleQuery) ==
    LET filter == RoleFilter(roleQuery)
        rows == Restrict(problem_matches,
                         LAMBDA r : /\ r.problem_id = UuidIn(problemId)
                                    /\ (filter # <<>> => r.role = filter)) IN
    {[i \in DOMAIN s |-> CollaboratorItem(s[i].row)] :
        s \in {Limit(o, CollaboratorLimit) : o \in OrderedDesc(rows)}}

ListCollaborators(problemId, roleQuery) ==
    /\ IF ~isUuid(Str(problemId))
       THEN resp' = [op |-> "listCollaborators", problemId |-> problemId,
                     roleQuery |-> roleQuery, status |-> 400]
       ELSE \E items \in CollaboratorItems(problemId, roleQuery) :
              resp' = [op |-> "listCollaborators", problemId |-> problemId,
                       roleQuery |-> roleQuery, status |-> 200, items |-> items]
    /\ before' = EmptyBag
    /\ UNCHANGED <<inflight, seed, users, problems, problem_created, problem_matches,
                   dbNow, clock, issued, pending, written>>

\* Number(text): the value of a StringNumericLiteral, NaN for any other text;
\* the value is the double nearest to the numeral, ties to the even mantissa.
\*   [kind |-> "int",  v |-> n]   the integer n, below BigNumber in size
\*   [kind |-> "frac", v |-> n]   a non-integer with integer part n (sign dropped
\*                                from a part of 0)
\*   [kind |-> "big",  v |-> +-1] a finite number of size BigNumber or more
\*   [kind |-> "inf",  v |-> +-1] Infinity, -Infinity
\* Exact for texts of fewer than BigNumber - 1100 characters.
Digits == <<"0","1","2","3","4","5","6","7","8","9">>
DigitSet == {Digits[i] : i \in DOMAIN Digits}
DigitTable == [c \in DigitSet |-> IndexIn(c, Digits) - 1]
BigNumber == 1000000
NaN == [kind |-> "nan", v |-> 0]
IntNum(n) == [kind |-> "int", v |-> n]
FracNum(n) == [kind |-> "frac", v |-> n]
BigNum(sign) == [kind |-> "big", v |-> sign]
Infinity(sign) == [kind |-> "inf", v |-> sign]

AllDigits(s) == \A i \in DOMAIN s : s[i] \in DigitSet

\* digit values without the leading zeros, without the trailing zeros
StripZeros(d) ==
    IF \A i \in DOMAIN d : d[i] = 0 THEN <<>>
    ELSE SubSeq(d, CHOOSE i \in DOMAIN d : d[i] # 0 /\ \A j \in 1..(i - 1) : d[j] = 0, Len(d))
StripTrailingZeros(d) ==
    IF \A i \in DOMAIN d : d[i] = 0 THEN <<>>
    ELSE SubSeq(d, 1, CHOOSE i \in DOMAIN d : d[i] # 0 /\ \A j \in (i + 1)..Len(d) : d[j] = 0)

\* the value of a sequence of digit values in base `base`, held at BigNumber
\* from there on
RECURSIVE PlaceValue(_, _)
PlaceValue(d, base) ==
    IF d = <<>> THEN 0
    ELSE LET v == PlaceValue(SubSeq(d, 1, Len(d) - 1), base) * base + d[Len(d)] IN
         IF v >= BigNumber THEN BigNumber ELSE v
\* more than 20 digits after the leading zeros: 2^20 at least, past BigNumber
ValueOf(d, base) ==
    IF Len(StripZeros(d)) > 20 THEN BigNumber ELSE PlaceValue(StripZeros(d), base)

\* the same of a text of digits
DigitsValue(s, base) == ValueOf([i \in DOMAIN s |-> HexTable[LowerChar(s[i])]], base)

\* the fractions 0.a and 0.b compared at their first difference: -1, 0, 1
CompareFraction(a, b) ==
    LET n == IF Len(a) > Len(b) THEN Len(a) ELSE Len(b)
        x(i) == IF i <= Len(a) THEN a[i] ELSE 0
        y(i) == IF i <= Len(b) THEN b[i] ELSE 0 IN
    IF \A i \in 1..n : x(i) = y(i) THEN 0
    ELSE LET i == CHOOSE k \in 1..n : x(k) # y(k) /\ \A j \in 1..(k - 1) : x(j) = y(j) IN
         IF x(i) < y(i) THEN 0 - 1 ELSE 1

\* 0.a x 10^p compared with 0.b x 10^q, neither a nor b with a leading zero
CompareDecimal(a, p, b, q) ==
    IF p < q THEN 0 - 1 ELSE IF p > q THEN 1 ELSE CompareFraction(a, b)

\* half of the fraction 0.d (d ends in an odd digit): one digit longer
Halve(d) ==
    SubSeq([i \in 1..(Len(d) + 1) |->
               ((IF i = 1 THEN 0 ELSE d[i - 1] % 2) * 10 + (IF i > Len(d) THEN 0 ELSE d[i]))
                 \div 2], 1, Len(d) + 1)

\* the fraction digits of 2^-j, j = 1..54: half the distance between doubles
\* next to an integer below 2^53
RECURSIVE Halved(_, _)
Halved(d, times) == IF times = 0 \/ d = <<>> THEN d ELSE Halved(Halve(d), times - 1)
TwoToMinus(j) == Halved(<<5>>, j - 1)
HalfUlp == SubSeq([j \in 1..54 |-> TwoToMinus(j)], 1, 54)

\* 1 - 0.f, f ending in a digit that is not 0
Complement(f) == [i \in DOMAIN f |-> IF i = Len(f) THEN 10 - f[i] ELSE 9 - f[i]]

RECURSIVE Log2(_)
Log2(n) == IF n < 2 THEN 0 ELSE 1 + Log2(n \div 2)
IsPowerOfTwo(n) == n = 2 ^ Log2(n)

\* 2^-1075, half the smallest double, its 1075 fraction digits: a numeral up to
\* it reads as 0
SmallestHalf ==
    <<0, 0, 0, 0, 0, 0, 0, 0, 0, 0, 0, 0, 0, 0, 0, 0, 0, 0, 0, 0, 0, 0, 0, 0, 0, 0, 0, 0, 0, 0, 0, 0, 0, 0, 0, 0, 0, 0, 0, 0,
      0, 0, 0, 0, 0, 0, 0, 0, 0, 0, 0, 0, 0, 0, 0, 0, 0, 0, 0, 0, 0, 0, 0, 0, 0, 0, 0, 0, 0, 0, 0, 0, 0, 0, 0, 0, 0, 0, 0, 0,
      0, 0, 0, 0, 0, 0, 0, 0, 0, 0, 0, 0, 0, 0, 0, 0, 0, 0, 0, 0, 0, 0, 0, 0, 0, 0, 0, 0, 0, 0, 0, 0, 0, 0, 0, 0, 0, 0, 0, 0,
      0, 0, 0, 0, 0, 0, 0, 0, 0, 0, 0, 0, 0, 0, 0, 0, 0, 0, 0, 0, 0, 0, 0, 0, 0, 0, 0, 0, 0, 0, 0, 0, 0, 0, 0, 0, 0, 0, 0, 0,
      0, 0, 0, 0, 0, 0, 0, 0, 0, 0, 0, 0, 0, 0, 0, 0, 0, 0, 0, 0, 0, 0, 0, 0, 0, 0, 0, 0, 0, 0, 0, 0, 0, 0, 0, 0, 0, 0, 0, 0,
      0, 0, 0, 0, 0, 0, 0, 0, 0, 0, 0, 0, 0, 0, 0, 0, 0, 0, 0, 0, 0, 0, 0, 0, 0, 0, 0, 0, 0, 0, 0, 0, 0, 0, 0, 0, 0, 0, 0, 0,
      0, 0, 0, 0, 0, 0, 0, 0, 0, 0, 0, 0, 0, 0, 0, 0, 0, 0, 0, 0, 0, 0, 0, 0, 0, 0, 0, 0, 0, 0, 0, 0, 0, 0, 0, 0, 0, 0, 0, 0,
      0, 0, 0, 0, 0, 0, 0, 0, 0, 0, 0, 0, 0, 0, 0, 0, 0, 0, 0, 0, 0, 0, 0, 0, 0, 0, 0, 0, 0, 0, 0, 0, 0, 0, 0, 0, 0, 0, 0, 0,
      0, 0, 0, 2, 4, 7, 0, 3, 2, 8, 2, 2, 9, 2, 0, 6, 2, 3, 2, 7, 2, 0, 8, 8, 2, 8, 4, 3, 9, 6, 4, 3, 4, 1, 1, 0, 6, 8, 6, 1,
      8, 2, 5, 2, 9, 9, 0, 1, 3, 0, 7, 1, 6, 2, 3, 8, 2, 2, 1, 2, 7, 9, 2, 8, 4, 1, 2, 5, 0, 3, 3, 7, 7, 5, 3, 6, 3, 5, 1, 0,
      4, 3, 7, 5, 9, 3, 2, 6, 4, 9, 9, 1, 8, 1, 8, 0, 8, 1, 7, 9, 9, 6, 1, 8, 9, 8, 9, 8, 2, 8, 2, 3, 4, 7, 7, 2, 2, 8, 5, 8,
      8, 6, 5, 4, 6, 3, 3, 2, 8, 3, 5, 5, 1, 7, 7, 9, 6, 9, 8, 9, 8, 1, 9, 9, 3, 8, 7, 3, 9, 8, 0, 0, 5, 3, 9, 0, 9, 3, 9, 0,
      6, 3, 1, 5, 0, 3, 5, 6, 5, 9, 5, 1, 5, 5, 7, 0, 2, 2, 6, 3, 9, 2, 2, 9, 0, 8, 5, 8, 3, 9, 2, 4, 4, 9, 1, 0, 5, 1, 8, 4,
      4, 3, 5, 9, 3, 1, 8, 0, 2, 8, 4, 9, 9, 3, 6, 5, 3, 6, 1, 5, 2, 5, 0, 0, 3, 1, 9, 3, 7, 0, 4, 5, 7, 6, 7, 8, 2, 4, 9, 2,
      1, 9, 3, 6, 5, 6, 2, 3, 6, 6, 9, 8, 6, 3, 6, 5, 8, 4, 8, 0, 7, 5, 7, 0, 0, 1, 5, 8, 5, 7, 6, 9, 2, 6, 9, 9, 0, 3, 7, 0,
      6, 3, 1, 1, 9, 2, 8, 2, 7, 9, 5, 5, 8, 5, 5, 1, 3, 3, 2, 9, 2, 7, 8, 3, 4, 3, 3, 8, 4, 0, 9, 3, 5, 1, 9, 7, 8, 0, 1, 5,
      5, 3, 1, 2, 4, 6, 5, 9, 7, 2, 6, 3, 5, 7, 9, 5, 7, 4, 6, 2, 2, 7, 6, 6, 4, 6, 5, 2, 7, 2, 8, 2, 7, 2, 2, 0, 0, 5, 6, 3,
      7, 4, 0, 0, 6, 4, 8, 5, 4, 9, 9, 9, 7, 7, 0, 9, 6, 5, 9, 9, 4, 7, 0, 4, 5, 4, 0, 2, 0, 8, 2, 8, 1, 6, 6, 2, 2, 6, 2, 3,
      7, 8, 5, 7, 3, 9, 3, 4, 5, 0, 7, 3, 6, 3, 3, 9, 0, 0, 7, 9, 6, 7, 7, 6, 1, 9, 3, 0, 5, 7, 7, 5, 0, 6, 7, 4, 0, 1, 7, 6,
      3, 2, 4, 6, 7, 3, 6, 0, 0, 9, 6, 8, 9, 5, 1, 3, 4, 0, 5, 3, 5, 5, 3, 7, 4, 5, 8, 5, 1, 6, 6, 6, 1, 1, 3, 4, 2, 2, 3, 7,
      6, 6, 6, 7, 8, 6, 0, 4, 1, 6, 2, 1, 5, 9, 6, 8, 0, 4, 6, 1, 9, 1, 4, 4, 6, 7, 2, 9, 1, 8, 4, 0, 3, 0, 0, 5, 3, 0, 0, 5,
      7, 5, 3, 0, 8, 4, 9, 0, 4, 8, 7, 6, 5, 3, 9, 1, 7, 1, 1, 3, 8, 6, 5, 9, 1, 6, 4, 6, 2, 3, 9, 5, 2, 4, 9, 1, 2, 6, 2, 3,
      6, 5, 3, 8, 8, 1, 8, 7, 9, 6, 3, 6, 2, 3, 9, 3, 7, 3, 2, 8, 0, 4, 2, 3, 8, 9, 1, 0, 1, 8, 6, 7, 2, 3, 4, 8, 4, 9, 7, 6,
      6, 8, 2, 3, 5, 0, 8, 9, 8, 6, 3, 3, 8, 8, 5, 8, 7, 9, 2, 5, 6, 2, 8, 3, 0, 2, 7, 5, 5, 9, 9, 5, 6, 5, 7, 5, 2, 4, 4, 5,
      5, 5, 0, 7, 2, 5, 5, 1, 8, 9, 3, 1, 3, 6, 9, 0, 8, 3, 6, 2, 5, 4, 7, 7, 9, 1, 8, 6, 9, 4, 8, 6, 6, 7, 9, 9, 4, 9, 6, 8,
      3, 2, 4, 0, 4, 9, 7, 0, 5, 8, 2, 1, 0, 2, 8, 5, 1, 3, 1, 8, 5, 4, 5, 1, 3, 9, 6, 2, 1, 3, 8, 3, 7, 7, 2, 2, 8, 2, 6, 1,
      4, 5, 4, 3, 7, 6, 9, 3, 4, 1, 2, 5, 3, 2, 0, 9, 8, 5, 9, 1, 3, 2, 7, 6, 6, 7, 2, 3, 6, 3, 2, 8, 1, 2, 5>>

SmallestDigits == StripZeros(SmallestHalf)

\* 2^1024 - 2^970, half a step past the largest double, its 309 digits: a
\* numeral from it on reads as Infinity
LargestHalf ==
    <<1, 7, 9, 7, 6, 9, 3, 1, 3, 4, 8, 6, 2, 3, 1, 5, 8, 0, 7, 9, 3, 7, 2, 8, 9, 7, 1, 4, 0, 5, 3, 0, 3, 4, 1, 5, 0, 7, 9, 9,
      3, 4, 1, 3, 2, 7, 1, 0, 0, 3, 7, 8, 2, 6, 9, 3, 6, 1, 7, 3, 7, 7, 8, 9, 8, 0, 4, 4, 4, 9, 6, 8, 2, 9, 2, 7, 6, 4, 7, 5,
      0, 9, 4, 6, 6, 4, 9, 0, 1, 7, 9, 7, 7, 5, 8, 7, 2, 0, 7, 0, 9, 6, 3, 3, 0, 2, 8, 6, 4, 1, 6, 6, 9, 2, 8, 8, 7, 9, 1, 0,
      9, 4, 6, 5, 5, 5, 5, 4, 7, 8, 5, 1, 9, 4, 0, 4, 0, 2, 6, 3, 0, 6, 5, 7, 4, 8, 8, 6, 7, 1, 5, 0, 5, 8, 2, 0, 6, 8, 1, 9,
      0, 8, 9, 0, 2, 0, 0, 0, 7, 0, 8, 3, 8, 3, 6, 7, 6, 2, 7, 3, 8, 5, 4, 8, 4, 5, 8, 1, 7, 7, 1, 1, 5, 3, 1, 7, 6, 4, 4, 7,
      5, 7, 3, 0, 2, 7, 0, 0, 6, 9, 8, 5, 5, 5, 7, 1, 3, 6, 6, 9, 5, 9, 6, 2, 2, 8, 4, 2, 9, 1, 4, 8, 1, 9, 8, 6, 0, 8, 3, 4,
      9, 3, 6, 4, 7, 5, 2, 9, 2, 7, 1, 9, 0, 7, 4, 1, 6, 8, 4, 4, 4, 3, 6, 5, 5, 1, 0, 7, 0, 4, 3, 4, 2, 7, 1, 1, 5, 5, 9, 6,
      9, 9, 5, 0, 8, 0, 9, 3, 0, 4, 2, 8, 8, 0, 1, 7, 7, 9, 0, 4, 1, 7, 4, 4, 9, 7, 7, 9, 2>>

\* the double nearest to n + 0.f (f without trailing zeros), n an integer
\* below 2^53: n when the fraction is within half a step of it, n + 1 likewise
\* (the step below a power of two is half the step above), a tie going to the
\* integer, whose mantissa is even
Rounded(n, f) ==
    IF n >= BigNumber THEN BigNum(1)
    ELSE IF f = <<>> THEN IntNum(n)
    ELSE IF n > 0 /\ CompareFraction(f, HalfUlp[53 - Log2(n)]) <= 0 THEN IntNum(n)
    ELSE IF CompareFraction(Complement(f),
                            HalfUlp[IF IsPowerOfTwo(n + 1) THEN 54 - Log2(n + 1)
                                    ELSE 53 - Log2(n + 1)]) <= 0
    THEN (IF n + 1 >= BigNumber THEN BigNum(1) ELSE IntNum(n + 1))
    ELSE FracNum(n)

\* digits, with the decimal point `point` places after their first: the number
Decimal(digits, point) ==
    LET all == [i \in DOMAIN digits |-> DigitTable[digits[i]]]
        d == StripZeros(all)
        pos == point - (Len(all) - Len(d))         \* digits of d before the point
        \* 10^7 is past BigNumber
        whole == IF pos <= 0 THEN <<>>
                 ELSE IF pos >= Len(d) THEN d \o Rep(0, IF pos - Len(d) > 7 THEN 7
                                                        ELSE pos - Len(d))
                 ELSE SubSeq(d, 1, pos)
        rest == IF pos <= 0 THEN Rep(0, 0 - pos) \o d
                ELSE IF pos >= Len(d) THEN <<>>
                ELSE SubSeq(d, pos + 1, Len(d)) IN
    IF d = <<>> THEN IntNum(0)
    ELSE IF CompareDecimal(d, pos, SmallestDigits, Len(SmallestDigits) - Len(SmallestHalf)) <= 0 THEN IntNum(0)
    ELSE IF CompareDecimal(d, pos, LargestHalf, Len(LargestHalf)) >= 0 THEN Infinity(1)
    ELSE IF pos > 7 THEN BigNum(1)
    ELSE Rounded(ValueOf(whole, 10), StripTrailingZeros(rest))

\* ExponentPart: e or E, an optional sign, digits; held at +-BigNumber
Exponent(s) ==
    LET signed == s # <<>> /\ Head(s) \in {"+", "-"}
        ds == IF signed THEN Tail(s) ELSE s IN
    IF ds = <<>> \/ ~AllDigits(ds) THEN [ok |-> FALSE, v |-> 0]
    ELSE [ok |-> TRUE, v |-> IF signed /\ Head(s) = "-" THEN 0 - DigitsValue(ds, 10)
                             ELSE DigitsValue(ds, 10)]

InfinityWord == <<"I","n","f","i","n","i","t","y">>

\* StrUnsignedDecimalLiteral
Unsigned(s) ==
    LET e == IF IndexIn("e", s) = 0 THEN IndexIn("E", s)
             ELSE IF IndexIn("E", s) = 0 THEN IndexIn("e", s)
             ELSE IF IndexIn("e", s) < IndexIn("E", s) THEN IndexIn("e", s)
             ELSE IndexIn("E", s)
        mantissa == IF e = 0 THEN s ELSE SubSeq(s, 1, e - 1)
        exp == IF e = 0 THEN [ok |-> TRUE, v |-> 0] ELSE Exponent(SubSeq(s, e + 1, Len(s)))
        dot == IndexIn(".", mantissa)
        whole == IF dot = 0 THEN mantissa ELSE SubSeq(mantissa, 1, dot - 1)
        frac == IF dot = 0 THEN <<>> ELSE SubSeq(mantissa, dot + 1, Len(mantissa)) IN
    IF s = InfinityWord THEN Infinity(1)
    ELSE IF ~exp.ok \/ ~AllDigits(whole) \/ ~AllDigits(frac) \/ whole \o frac = <<>>
    THEN NaN
    ELSE Decimal(whole \o frac, Len(whole) + exp.v)

\* the bits of a digit value, `width` of them
BitsOf(v, width) == [i \in 1..width |-> (v \div (2 ^ (width - i))) % 2]

\* NonDecimalIntegerLiteral: 0x, 0o, 0b followed by digits of the base. Past
\* 2^53 the value is rounded as a decimal numeral is: 1024 bits of which the
\* first 54 are ones, or more bits, read as Infinity.
NonDecimal(s) ==
    LET base == IF Len(s) < 2 \/ Head(s) # "0" THEN 0
                ELSE IF s[2] \in {"x", "X"} THEN 16
                ELSE IF s[2] \in {"o", "O"} THEN 8
                ELSE IF s[2] \in {"b", "B"} THEN 2 ELSE 0
        ds == SubSeq(s, 3, Len(s))
        width == Log2(base)
        bits == StripZeros([i \in 1..(width * Len(ds)) |->
                               BitsOf(HexTable[LowerChar(ds[((i - 1) \div width) + 1])],
                                      width)[((i - 1) % width) + 1]]) IN
    IF base = 0 \/ ds = <<>>
       \/ \E i \in DOMAIN ds : ~(IsHex(ds[i]) /\ HexTable[LowerChar(ds[i])] < base)
    THEN NaN
    ELSE IF Len(bits) > 1024 \/ (Len(bits) = 1024 /\ \A i \in 1..54 : bits[i] = 1)
    THEN Infinity(1)
    ELSE IF DigitsValue(ds, base) >= BigNumber THEN BigNum(1)
    ELSE IntNum(DigitsValue(ds, base))

Negated(m) == IF m.kind = "nan" THEN NaN ELSE [kind |-> m.kind, v |-> 0 - m.v]

Number(text) ==
    LET s == trim(text) IN
    IF s = <<>> THEN IntNum(0)
    ELSE IF NonDecimal(s).kind # "nan" THEN NonDecimal(s)
    ELSE IF Head(s) = "-" THEN Negated(Unsigned(Tail(s)))
    ELSE IF Head(s) = "+" THEN Unsigned(Tail(s))
    ELSE Unsigned(s)

\* Math.min(x, 500)
MathMin(x, cap) ==
    IF x.kind = "nan" THEN NaN
    ELSE IF x.kind \in {"big", "inf"} THEN (IF x.v > 0 THEN IntNum(cap) ELSE x)
    ELSE IF x.kind = "int" THEN IntNum(Min(x.v, cap))
    ELSE IF x.v >= cap THEN IntNum(cap) ELSE x

\* const limit = Math.min(Number(req.query.limit ?? 200), 500)
\* Number of an array is the Number of its elements joined by commas.
MatchesLimit(limitQuery) ==
    MathMin(IF limitQuery.t = "undefined" THEN IntNum(DefaultLimit)
            ELSE IF limitQuery.t \in {"string", "array"} THEN Number(limitQuery.s)
            ELSE NaN, MaxLimit)

MatchItem(r) ==
    [role |-> r.role, matched_at |-> r.created_at, problem |-> [id |-> UuidOut(r.problem_id)]]

\* What the query of GET /me/matches returns: the item lists, or "error".
\* .limit(limit) sends String(limit) to the store. For a non-negative integer
\* the store returns that many rows at most. What it does with any other text
\* is not decided by this code, so every outcome is allowed:
\*   a negative integer (-1)                       refused, or no rows
\*   a text that is no integer (1.5, NaN,          refused, or read as no limit
\*     -Infinity, -1e+21)
\* A number below -BigNumber may print either way.
MatchesResults(userId, limit) ==
    LET rows == Restrict(problem_matches, LAMBDA r : r.user_id = UuidIn(userId))
        \* .filter(r => r.problems): the joined problem must resolve
        shown(s) == SelectSeq(s, LAMBDA e : e.row.problem_id \in problems)
        items(s) == LET kept == shown(s) IN
                    [i \in DOMAIN kept |-> MatchItem(kept[i].row)]
        refused == {[error |-> TRUE, items |-> <<>>]}
        none == {[error |-> FALSE, items |-> <<>>]}
        unlimited == {[error |-> FALSE, items |-> items(o)] : o \in OrderedDesc(rows)} IN
    IF limit.kind = "int" /\ limit.v >= 0
    THEN {[error |-> FALSE, items |-> items(Limit(o, limit.v))] : o \in OrderedDesc(rows)}
    ELSE IF limit.kind = "int" THEN refused \cup none
    ELSE IF limit.kind = "big" THEN refused \cup none \cup unlimited
    ELSE refused \cup unlimited

\* GET /me/matches up to its await: requireAuth, which reads the server's
\* clock. The select is sent, and served in a later step.
ListMyMatchesBegin(header, limitQuery, cap) ==
    LET auth == requireAuth(header, clock) IN
    /\ IF ~auth.ok
       THEN /\ resp' = [op |-> "listMyMatches", userId |-> <<>>, limit |-> limitQuery,
                        status |-> auth.status]
            /\ inflight' = inflight
       ELSE /\ resp' = NoResp
            /\ inflight' = inflight (+) SetToBag({[op |-> "listMyMatches",
                                                   userId |-> auth.userId.s,
                                                   limit |-> limitQuery]})
            /\ InFlight < cap
    /\ before' = EmptyBag
    /\ UNCHANGED <<seed, users, problems, problem_created, problem_matches, dbNow, clock,
                   issued, pending, written>>

\* The store serves the select, and the handler responds.
ListMyMatchesSelect(req) ==
    /\ BagIn(req, inflight)
    /\ req.op = "listMyMatches"
    /\ inflight' = inflight (-) SetToBag({req})
    /\ \E res \in MatchesResults(req.userId, MatchesLimit(req.limit)) :
         resp' = IF res.error
                 THEN [op |-> "listMyMatches", userId |-> req.userId,
                       limit |-> req.limit, status |-> 500]
                 ELSE [op |-> "listMyMatches", userId |-> req.userId,
                       limit |-> req.limit, status |-> 200, items |-> res.items]
    /\ before' = EmptyBag
    /\ UNCHANGED <<seed, users, problems, problem_created, problem_matches, dbNow, clock,
                   issued, pending, written>>

\* ------------------------------------------------------------------------
\* The store's clock
\* ------------------------------------------------------------------------

TickDb ==
    /\ dbNow < MaxDbTime
    /\ dbNow' = dbNow + 1
    /\ resp' = NoResp
    /\ before' = EmptyBag
    /\ UNCHANGED <<inflight, seed, users, problems, problem_created, problem_matches,
                   clock, issued, pending, written>>

\* ------------------------------------------------------------------------
\* The seed script (seed.ts): seven store calls, each awaited, run once
\* ------------------------------------------------------------------------

\* the ids the store generates for the rows the seed inserts: new ones. The
\* seed's 20 problems and 40 users are one of each here.
SeedFailed == 8    \* the value of seed after main().catch: the script has exited

SeedProblemIds == {UuidIn(P3)}
SeedUserIds == {UuidIn(U3)}

\* call 1, deleteAll: delete from problem_matches where id <> nil (every row)
deleteAllMatches ==
    /\ seed = 0
    /\ seed' = 1
    /\ problem_matches' = EmptyBag
    /\ written' = {}
    /\ resp' = NoResp
    /\ before' = EmptyBag
    /\ UNCHANGED <<inflight, users, problems, problem_created, dbNow, clock, issued,
                   pending>>

\* call 2, deleteAll: delete from users where id <> nil; the matches written
\* since call 1 go with their users
deleteAllUsers ==
    /\ seed = 1
    /\ seed' = 2
    /\ users' = users \cap {UuidIn(NilUuid)}
    /\ problem_matches' = CascadeUser(problem_matches, users \ users')
    /\ written' = Forget(written, LAMBDA x : x.pair.user_id \notin users')
    /\ resp' = NoResp
    /\ before' = EmptyBag
    /\ UNCHANGED <<inflight, problems, problem_created, dbNow, clock, issued, pending>>

\* call 3, deleteAll: delete from problems where id <> nil
deleteAllProblems ==
    /\ seed = 2
    /\ seed' = 3
    /\ problems' = problems \cap {UuidIn(NilUuid)}
    /\ problem_created' = [id \in problems' |-> problem_created[id]]
    /\ problem_matches' = CascadeProblem(problem_matches, problems \ problems')
    /\ written' = Forget(written, LAMBDA x : x.pair.problem_id \notin problems')
    /\ resp' = NoResp
    /\ before' = EmptyBag
    /\ UNCHANGED <<inflight, users, dbNow, clock, issued, pending>>

\* call 4: one insert of the rows; created_at is default now()
insertProblems ==
    /\ seed = 3
    /\ seed' = 4
    /\ problems' = problems \cup SeedProblemIds
    /\ problem_created' = [id \in problems' |-> IF id \in problems THEN problem_created[id]
                                                ELSE dbNow]
    /\ resp' = NoResp
    /\ before' = EmptyBag
    /\ UNCHANGED <<inflight, users, problem_matches, dbNow, clock, issued, pending,
                   written>>

\* call 5
insertUsers ==
    /\ seed = 4
    /\ seed' = 5
    /\ users' = users \cup SeedUserIds
    /\ resp' = NoResp
    /\ before' = EmptyBag
    /\ UNCHANGED <<inflight, problems, problem_created, problem_matches, dbNow, clock,
                   issued, pending, written>>

\* the rows insertMatches builds: every seeded user linked to some of the
\* seeded problems (3..7 of the script's 20: of the problems held here any, or
\* none), each link with either role
SeedRowSets ==
    {{Row(f[1], f[2], roleOf[f], dbNow) : f \in chosen} :
        chosen \in SUBSET (SeedUserIds \X SeedProblemIds),
        roleOf \in [SeedUserIds \X SeedProblemIds -> Roles]}

\* call 6: one insert of all the rows (a batch holds 500, the script builds
\* fewer). A row whose pair is in the table already makes the store refuse the
\* whole statement, and the script stops there.
insertMatches ==
    /\ seed = 5
    /\ \E rows \in SeedRowSets :
         IF \E r \in rows : PairRows(problem_matches, r.user_id, r.problem_id) # EmptyBag
         THEN /\ seed' = SeedFailed
              /\ problem_matches' = problem_matches
         ELSE /\ seed' = 6
              /\ problem_matches' = problem_matches (+) SetToBag(rows)
    /\ resp' = NoResp
    /\ before' = EmptyBag
    /\ UNCHANGED <<inflight, users, problems, problem_created, dbNow, clock, issued,
                   pending, written>>

\* call 7: the join check, a select
joinCheck ==
    /\ seed = 6
    /\ seed' = 7
    /\ resp' = NoResp
    /\ before' = EmptyBag
    /\ UNCHANGED <<inflight, users, problems, problem_created, problem_matches, dbNow,
                   clock, issued, pending, written>>

\* ------------------------------------------------------------------------
\* Inputs
\* ------------------------------------------------------------------------

GarbageToken == [wellFormed |-> FALSE, sig |-> "bad", sub |-> Undefined, typ |-> "", exp |-> 0]
Tampered(t) == [t EXCEPT !.sig = "bad"]
\* signed with the secret, but not by /login: the subject is not a uuid
OddSubjectToken == [JwtSign(Str(ShortText), clock) EXCEPT !.exp = clock + 1]

\* headers a client of the ledger routes may send
GoodHeaders == {Header(BearerWord, 1, t) : t \in issued}
LedgerHeaders == GoodHeaders
                   \cup {Header(BearerWord, 1, Tampered(t)) : t \in issued}
                   \cup {NoHeader}

\* headers tried against /me
AuthHeaders == LedgerHeaders
                 \cup {Header(toLowerCase(BearerWord), 2, t) : t \in issued}
                 \cup {Header(BasicWord, 1, t) : t \in issued}
                 \cup {Header(BearerWord, 0, t) : t \in issued}
                 \cup {Header(BearerWord, 1, GarbageToken),
                       Header(BearerWord, 1, OddSubjectToken)}

LoginInputs == {Str(U1), Str(U1Upper), Str(GhostUser), Str(NilUuid),
                Str(ShortText), Undefined, NumberValue}

ProblemIdInputs == {P1, GhostProblem, NilUuid, ShortText}
RoleInputs == {Str(SOLVER), Str(AFFECTED), Str(toLowerCase(SOLVER)), Undefined}
GoodRoles == {Str(SOLVER), Str(AFFECTED)}

\* ------------------------------------------------------------------------
\* GET /problems
\* ------------------------------------------------------------------------

\* the text columns of three of the rows seed.ts writes into problems: P1 and
\* P2 stand in the table from an earlier run, P3 is the row this run inserts
Problem(title, description, category, location, country_code) ==
    [title |-> title, description |-> description, category |-> category,
     location |-> location, country_code |-> country_code]

Safety == <<"S","a","f","e","t","y">>
Housing == <<"H","o","u","s","i","n","g">>
Sustainability == <<"S","u","s","t","a","i","n","a","b","i","l","i","t","y">>

ProblemRows ==
    (UuidIn(P1) :>
        Problem(<<"N","i","g","h","t"," ","t","r","a","n","s","p","o","r","t",
                  " ","s","a","f","e","t","y">>,
                <<"R","e","p","o","r","t","i","n","g"," ","+"," ","s","a","f",
                  "e","r"," ","r","o","u","t","e"," ","g","u","i","d","a","n",
                  "c","e"," ","f","o","r"," ","l","a","t","e","-","n","i","g",
                  "h","t"," ","r","i","d","e","r","s",".">>,
                Safety, <<"M","a","d","r","i","d",","," ","E","S">>, <<"E","S">>))
    @@ (UuidIn(P2) :>
        Problem(<<"H","o","u","s","i","n","g"," ","a","f","f","o","r","d","a",
                  "b","i","l","i","t","y">>,
                <<"T","o","o","l","s"," ","f","o","r"," ","t","e","n","a","n",
                  "t","s"," ","t","o"," ","f","i","n","d"," ","f","a","i","r",
                  " ","r","e","n","t","s"," ","a","n","d"," ","s","u","p","p",
                  "o","r","t"," ","p","r","o","g","r","a","m","s",".">>,
                Housing, <<"L","i","s","b","o","n",","," ","P","T">>, <<"P","T">>))
    @@ (UuidIn(P3) :>
        Problem(<<"F","o","o","d"," ","w","a","s","t","e"," ","i","n"," ","c",
                  "i","t","i","e","s">>,
                <<"R","e","d","i","s","t","r","i","b","u","t","e"," ","s","u",
                  "r","p","l","u","s"," ","e","d","i","b","l","e"," ","f","o",
                  "o","d"," ","f","r","o","m"," ","s","h","o","p","s"," ","t",
                  "o"," ","c","o","m","m","u","n","i","t","i","e","s",".">>,
                Sustainability, <<"P","a","r","i","s",","," ","F","R">>, <<"F","R">>))

\* s contains x as it is written
Contains(s, x) == \E i \in 0..(Len(s) - Len(x)) : SubSeq(s, i + 1, i + Len(x)) = x

\* the pieces of s between the occurrences of the character c
RECURSIVE SplitOn(_, _)
SplitOn(s, c) ==
    LET i == IndexIn(c, s) IN
    IF i = 0 THEN <<s>> ELSE <<SubSeq(s, 1, i - 1)>> \o SplitOn(SubSeq(s, i + 1, Len(s)), c)

\* SQL LIKE: % is any run of characters, _ any one character, \ takes the next
\* character as it is written
RECURSIVE Like(_, _)
Like(s, p) ==
    IF p = <<>> THEN s = <<>>
    ELSE IF Head(p) = "%" THEN Like(s, Tail(p)) \/ (s # <<>> /\ Like(Tail(s), p))
    ELSE IF Head(p) = "_" THEN s # <<>> /\ Like(Tail(s), Tail(p))
    ELSE IF Head(p) = "\\"
    THEN Len(p) >= 2 /\ s # <<>> /\ Head(s) = p[2] /\ Like(Tail(s), SubSeq(p, 3, Len(p)))
    ELSE s # <<>> /\ Head(s) = Head(p) /\ Like(Tail(s), Tail(p))

\* LIKE refuses a pattern that ends with the escape character
RECURSIVE LikeRefuses(_)
LikeRefuses(p) ==
    IF p = <<>> THEN FALSE
    ELSE IF Head(p) = "\\" THEN Len(p) = 1 \/ LikeRefuses(SubSeq(p, 3, Len(p)))
    ELSE LikeRefuses(Tail(p))

\* the request's pattern as the store receives it: * stands for %
StarToPercent(p) == [i \in DOMAIN p |-> IF p[i] = "*" THEN "%" ELSE p[i]]

\* column ILIKE pattern
\* the store's lower(): ASCII and Latin-1 capitals
lower(s) == [i \in DOMAIN s |->
                IF s[i] \in Latin1UpperSet THEN Latin1Lowers[IndexIn(s[i], Latin1Uppers)]
                ELSE LowerChar(s[i])]

ILike(s, p) == Like(lower(s), lower(StarToPercent(p)))

\* the text columns of problems
ColumnNames == {<<"t","i","t","l","e">>, <<"d","e","s","c","r","i","p","t","i","o","n">>,
                <<"c","a","t","e","g","o","r","y">>, <<"l","o","c","a","t","i","o","n">>,
                <<"c","o","u","n","t","r","y","_","c","o","d","e">>}
ColumnOf(row, name) ==
    IF name = <<"t","i","t","l","e">> THEN row.title
    ELSE IF name = <<"d","e","s","c","r","i","p","t","i","o","n">> THEN row.description
    ELSE IF name = <<"c","a","t","e","g","o","r","y">> THEN row.category
    ELSE IF name = <<"l","o","c","a","t","i","o","n">> THEN row.location
    ELSE row.country_code
IlikeOp == <<"i","l","i","k","e">>
LikeOp == <<"l","i","k","e">>
EqOp == <<"e","q">>
NeqOp == <<"n","e","q">>

\* `title.ilike.%${search}%,description.ilike.%${search}%`
OrFilter(search) ==
    <<"t","i","t","l","e",".">> \o IlikeOp \o <<".","%">> \o search \o <<"%",",">>
      \o <<"d","e","s","c","r","i","p","t","i","o","n",".">> \o IlikeOp \o <<".","%">>
      \o search \o <<"%">>

\* The store's reading of an or= list (texts without quotes or parentheses):
\* conditions are separated by commas, each one column.operator.value, cut at
\* its first two dots. A piece without two dots, or a LIKE pattern that ends
\* with the escape character, makes the whole request fail. Read here are the
\* operators ilike, like, eq and neq on the text columns of problems; what the
\* store makes of any other condition is left open.
Condition(piece) ==
    LET d1 == IndexIn(".", piece)
        rest == SubSeq(piece, d1 + 1, Len(piece))
        d2 == IndexIn(".", rest)
        column == SubSeq(piece, 1, d1 - 1)
        operator == SubSeq(rest, 1, d2 - 1)
        pattern == SubSeq(rest, d2 + 1, Len(rest))
        read == column \in ColumnNames /\ operator \in {IlikeOp, LikeOp, EqOp, NeqOp} IN
    IF d1 = 0 \/ d2 = 0
    THEN [ok |-> FALSE, read |-> FALSE, column |-> <<>>, operator |-> <<>>, pattern |-> <<>>]
    ELSE [ok |-> ~(read /\ operator \in {IlikeOp, LikeOp} /\ LikeRefuses(pattern)),
          read |-> read, column |-> column, operator |-> operator, pattern |-> pattern]

OrConditions(filter) ==
    LET pieces == SplitOn(filter, ",") IN [i \in DOMAIN pieces |-> Condition(pieces[i])]

\* a condition that was read holds of the row
Holds(row, c) ==
    IF c.operator = IlikeOp THEN ILike(ColumnOf(row, c.column), c.pattern)
    ELSE IF c.operator = LikeOp THEN Like(ColumnOf(row, c.column), StarToPercent(c.pattern))
    ELSE IF c.operator = EqOp THEN ColumnOf(row, c.column) = c.pattern
    ELSE ColumnOf(row, c.column) # c.pattern

\* the query value of a filter, trimmed; '' when it is no string
Trimmed(v) == IF v.t = "string" THEN trim(v.s) ELSE <<>>

\* What the filters select among the rows of ProblemRows: error when the store
\* refuses the request; else ids, the rows the conditions read select, and
\* among, the rows the other filters let through. With every condition read
\* the selection is ids; with one left open it is some set from ids to among,
\* or a refusal.
Selected(search, category, location, country_code) ==
    LET s == Trimmed(search)
        cat == Trimmed(category)
        loc == Trimmed(location)
        country == toUpperCase(Trimmed(country_code))
        conds == OrConditions(OrFilter(s))
        refused == \/ s # <<>> /\ \E i \in DOMAIN conds : ~conds[i].ok
                   \/ loc # <<>> /\ LikeRefuses(<<"%">> \o loc \o <<"%">>)
        pass(row) ==
            /\ cat # <<>> => row.category = cat
            /\ country # <<>> => row.country_code = country
            /\ loc # <<>> => ILike(row.location, <<"%">> \o loc \o <<"%">>)
        keep(row) ==
            /\ pass(row)
            /\ s # <<>> => \E c \in {conds[i] : i \in DOMAIN conds} : c.read /\ Holds(row, c) IN
    IF refused THEN [error |-> TRUE, open |-> FALSE, ids |-> {}, among |-> {}]
    ELSE [error |-> FALSE,
          open |-> s # <<>> /\ \E i \in DOMAIN conds : ~conds[i].read,
          ids |-> {id \in DOMAIN ProblemRows : keep(ProblemRows[id])},
          among |-> {id \in DOMAIN ProblemRows : pass(ProblemRows[id])}]

\* query values of GET /problems
SearchInputs == {Undefined, Str(<<"t","r","a","n","s","p","o","r","t">>),
                 Str(<<"H","O","U","S","I","N","G">>),
                 Str(<<" ","f","o","o","d"," ">>), Str(<<"z","z">>),
                 Str(<<"f","a","i","r","_","r","e","n","t","s">>), Str(<<"%">>),
                 Str(<<"f","o","o","d",",","w","a","s","t","e">>),
                 Str(<<"z","z",",","l","o","c","a","t","i","o","n",".","i","l","i","k","e",
                       ".","*","M","a","d","r","i","d","*">>),
                 Str(<<"z","z",",","c","a","t","e","g","o","r","y",".","g","t",".","R">>)}
CategoryInputs == {Undefined, Str(Safety), Str(toLowerCase(Safety)), Str(Housing),
                   Str(Sustainability)}
LocationInputs == {Undefined, Str(<<"m","a","d","r","i","d">>), Str(<<"\\">>)}
CountryInputs == {Undefined, Str(<<"e","s">>), Str(<<"e","U+017F">>)}

\* the requests tried: every search text with every category, every location
\* with every country code, and all four filters at once
ProblemQueries ==
    (SearchInputs \X CategoryInputs \X {Undefined} \X {Undefined})
    \cup ({Undefined} \X {Undefined} \X LocationInputs \X CountryInputs)
    \cup ({Str(<<"t","r","a","n","s","p","o","r","t">>)} \X {Str(Safety)}
             \X LocationInputs \X CountryInputs)

\* the selection, computed once for each request tried
SelectedTable ==
    [f \in ProblemQueries |-> Selected(f[1], f[2], f[3], f[4])] @@ <<>>

ProblemsLimit == 200

ProblemItem(id) ==
    [id |-> UuidOut(id), title |-> ProblemRows[id].title,
     description |-> ProblemRows[id].description, category |-> ProblemRows[id].category,
     location |-> ProblemRows[id].location, country_code |-> ProblemRows[id].country_code,
     created_at |-> problem_created[id],
     collaboratorCount |->
        BagCardinality(Restrict(problem_matches, LAMBDA r : r.problem_id = id))]

\* the selections the store may make: the one read, or with a condition left
\* open any set from ids to among
Selections(sel) ==
    IF sel.open THEN {sel.ids \cup more : more \in SUBSET (sel.among \ sel.ids)}
    ELSE {sel.ids}

\* the item lists of a selection: newest first, 200 at most
ProblemsListings(ids) ==
    LET rows == SetToBag({[id |-> id, created_at |-> problem_created[id]] :
                             id \in ids \cap problems}) IN
    {[error |-> FALSE, items |-> [i \in DOMAIN s |-> ProblemItem(s[i].row.id)]] :
        s \in {Limit(o, ProblemsLimit) : o \in OrderedDesc(rows)}}

\* the item lists GET /problems may answer with, or "error"
ProblemsResults(search, category, location, country_code) ==
    LET f == <<search, category, location, country_code>>
        sel == IF f \in DOMAIN SelectedTable THEN SelectedTable[f]
               ELSE Selected(search, category, location, country_code) IN
    IF sel.error THEN {[error |-> TRUE, items |-> <<>>]}
    ELSE IF sel.open
    THEN {[error |-> TRUE, items |-> <<>>]}
           \cup UNION {ProblemsListings(ids) : ids \in Selections(sel)}
    ELSE ProblemsListings(sel.ids)

SearchProblems(search, category, location, country_code) ==
    /\ \E res \in ProblemsResults(search, category, location, country_code) :
         resp' = IF res.error
                 THEN [op |-> "searchProblems", search |-> search, category |-> category,
                       location |-> location, country_code |-> country_code,
                       status |-> 500]
                 ELSE [op |-> "searchProblems", search |-> search, category |-> category,
                       location |-> location, country_code |-> country_code,
                       status |-> 200, items |-> res.items]
    /\ before' = EmptyBag
    /\ UNCHANGED <<inflight, seed, users, problems, problem_created, problem_matches,
                   dbNow, clock, issued, pending, written>>

\* ------------------------------------------------------------------------
\* Specifications
\* ------------------------------------------------------------------------

\* created_at counts the ticks of the store's clock from the start of a
\* behaviour: a row inserted n ticks before the start has created_at -n.
InitStoreAt(us, ps, at) ==
    /\ users = {UuidIn(u) : u \in us}
    /\ problems = {UuidIn(p) : p \in ps}
    /\ problem_created = [id \in problems |-> at]
    /\ dbNow = 0
    /\ clock = 0
    /\ pending = EmptyBag
    /\ inflight = EmptyBag
    /\ resp = NoResp
    /\ before = EmptyBag
    /\ written = {}
    /\ seed = 0

InitStore(us, ps) == InitStoreAt(us, ps, 0)

\* the server has just started: no login has been answered
InitWith(us, ps) == InitStore(us, ps) /\ issued = {}

\* the users us have logged in on day 0 and hold their tokens
InitLoggedIn(us, ps) ==
    /\ InitStore(us, ps)
    /\ issued = {JwtSign(Str(u), 0) : u \in us}

Init == InitLoggedIn({U1, U2}, {P2}) /\ problem_matches = EmptyBag

\* The match ledger under concurrent requests while the seed script runs:
\* two users, one problem, well-formed requests. The server's clock stands
\* still, so a request passes requireAuth the same whenever it starts: the
\* requests start one after the other's first query, and their queries are
\* served in every order.
Next ==
    \/ /\ inflight = EmptyBag
       /\ \E h \in GoodHeaders, pid \in {P2, P2Upper}, role \in GoodRoles :
            SetMatchBegin(h, pid, role, MaxInFlight)
    \/ \E req \in BagToSet(inflight) : SetMatchSelect(req)
    \/ \E req \in BagToSet(pending) : SetMatchUpsert(req)
    \/ /\ inflight = EmptyBag
       /\ \E h \in GoodHeaders : RemoveMatchBegin(h, P2, MaxInFlight)
    \/ \E req \in BagToSet(inflight) : RemoveMatchDelete(req)
    \/ TickDb
    \/ deleteAllMatches
    \/ deleteAllUsers
    \/ deleteAllProblems
    \/ insertProblems
    \/ insertUsers
    \/ insertMatches
    \/ joinCheck

Spec == Init /\ [][Next]_vars

\* The ledger routes against malformed, unauthenticated and dangling requests,
\* while the server's clock runs through the life of the tokens: a request
\* may pass requireAuth on one day and have its queries served on another.
\* U1 holds a token; U2 matched P1 earlier and sends nothing.
InitErr ==
    /\ InitStore({U1, U2}, {P1})
    /\ issued = {JwtSign(Str(U1), 0)}
    /\ problem_matches = SetToBag({Row(UuidIn(U2), UuidIn(P1), AFFECTED, 0)})

NextErr ==
    \/ \E h \in LedgerHeaders, pid \in ProblemIdInputs, role \in RoleInputs :
         SetMatchBegin(h, pid, role, MaxInFlight)
    \/ \E req \in BagToSet(inflight) : SetMatchSelect(req)
    \/ \E req \in BagToSet(pending) : SetMatchUpsert(req)
    \/ \E h \in LedgerHeaders, pid \in ProblemIdInputs :
         RemoveMatchBegin(h, pid, MaxInFlight)
    \/ \E req \in BagToSet(inflight) : RemoveMatchDelete(req)
    \/ \E h \in LedgerHeaders : ListMyMatchesBegin(h, Undefined, MaxInFlight)
    \/ \E req \in BagToSet(inflight) : ListMyMatchesSelect(req)
    \/ AdvanceClock(ExpiresIn)

SpecErr == InitErr /\ [][NextErr]_vars

\* Login and token verification over the life of a token, while the seed
\* script replaces the users; one login or /me request at a time is between
\* its two halves.
InitAuth == InitWith({U1}, {P2}) /\ problem_matches = EmptyBag

NextAuth ==
    \/ \E userId \in LoginInputs : LoginSelect(userId, 1)
    \/ \E req \in BagToSet(inflight) : LoginSign(req)
    \/ \E h \in AuthHeaders : MeAuth(h, 1)
    \/ \E req \in BagToSet(inflight) : MeSelect(req)
    \/ \E days \in {1, ExpiresIn - 1, ExpiresIn} : AdvanceClock(days)
    \/ deleteAllMatches
    \/ deleteAllUsers
    \/ deleteAllProblems
    \/ insertProblems
    \/ insertUsers
    \/ insertMatches
    \/ joinCheck

SpecAuth == InitAuth /\ [][NextAuth]_vars

\* role query values for GET /problems/:id/users
RoleQueryInputs == {Undefined, NumberValue, Str(<<>>), Str(ShortText),
                    Str(SOLVER), Str(toLowerCase(SOLVER)),
                    Str(<<"A","f","f","e","c","t","e","d">>),
                    Str(<<" ">> \o toLowerCase(SOLVER) \o <<" ">>),
                    Str(<<"\t">> \o toLowerCase(AFFECTED) \o <<"\n">>),
                    Str(<<"U+017F","o","l","v","e","r">>),
                    ArrayOf(<<SOLVER>>)}

\* Collaborators of two problems listed while one user matches them over time;
\* a second user's seeded matches, one of each role, stand by.
InitCollab ==
    /\ InitWith({U1, U2}, {P1, P2})
    /\ problem_matches = SetToBag({Row(UuidIn(U2), UuidIn(P1), AFFECTED, 0),
                                   Row(UuidIn(U2), UuidIn(P2), SOLVER, 0)})

NextCollab ==
    \/ LoginSelect(Str(U1), MaxAwaiting)
    \/ \E req \in BagToSet(inflight) : LoginSign(req)
    \/ \E h \in GoodHeaders, pid \in {P1, P2}, role \in GoodRoles :
         SetMatchBegin(h, pid, role, 1)
    \/ \E req \in BagToSet(inflight) : SetMatchSelect(req)
    \/ \E req \in BagToSet(pending) : SetMatchUpsert(req)
    \/ TickDb
    \/ \E pid \in {P1, P2Upper, ShortText}, roleQuery \in RoleQueryInputs :
         ListCollaborators(pid, roleQuery)

SpecCollab == InitCollab /\ [][NextCollab]_vars

\* The catalogue searched while the seed script replaces it; the matches at
\* the start give the problems different collaborator counts, and the user the
\* script inserts logs in and matches the problem it inserts.
InitSearch ==
    /\ InitWith({U1, U2}, {P1, P2})
    /\ problem_matches = SetToBag({Row(UuidIn(U1), UuidIn(P1), SOLVER, 0),
                                   Row(UuidIn(U2), UuidIn(P1), AFFECTED, 0),
                                   Row(UuidIn(U1), UuidIn(P2), SOLVER, 0)})

NextSearch ==
    \/ LoginSelect(Str(U3), MaxAwaiting)
    \/ \E req \in BagToSet(inflight) : LoginSign(req)
    \/ \E h \in GoodHeaders : SetMatchBegin(h, P3, Str(SOLVER), 1)
    \/ \E req \in BagToSet(inflight) : SetMatchSelect(req)
    \/ \E req \in BagToSet(pending) : SetMatchUpsert(req)
    \/ TickDb
    \/ \E f \in ProblemQueries : SearchProblems(f[1], f[2], f[3], f[4])
    \/ deleteAllMatches
    \/ deleteAllUsers
    \/ deleteAllProblems
    \/ insertProblems
    \/ insertUsers
    \/ insertMatches
    \/ joinCheck

SpecSearch == InitSearch /\ [][NextSearch]_vars

\* A problem with more collaborators than its listing holds: U1 matched P1
\* first, and as many others as the listing's limit matched it after, one per
\* tick. U1 changes its role, removes and renews its match, with requests in
\* flight together.
InitCrowd ==
    /\ InitStoreAt({U1} \cup CrowdUsers, {P1}, -(CollaboratorLimit + 2))
    /\ issued = {JwtSign(Str(U1), 0)}
    /\ problem_matches =
         SetToBag({Row(UuidIn(U1), UuidIn(P1), SOLVER, -(CollaboratorLimit + 1))}
                  \cup {Row(UuidIn(CrowdUser(n)), UuidIn(P1),
                            IF n % 2 = 0 THEN SOLVER ELSE AFFECTED, -n) :
                           n \in 1..CollaboratorLimit})

NextCrowd ==
    \/ /\ inflight = EmptyBag
       /\ \E h \in GoodHeaders, role \in GoodRoles :
            SetMatchBegin(h, P1, role, MaxInFlight)
    \/ \E req \in BagToSet(inflight) : SetMatchSelect(req)
    \/ \E req \in BagToSet(pending) : SetMatchUpsert(req)
    \/ /\ inflight = EmptyBag
       /\ \E h \in GoodHeaders : RemoveMatchBegin(h, P1, MaxInFlight)
    \/ \E req \in BagToSet(inflight) : RemoveMatchDelete(req)
    \/ TickDb
    \/ \E roleQuery \in {Undefined, Str(toLowerCase(SOLVER))} :
         ListCollaborators(P1, roleQuery)

SpecCrowd == InitCrowd /\ [][NextCrowd]_vars

\* limit query values for GET /me/matches
ManyLimitInputs == {Undefined, Str(<<"3">>), Str(<<" ","3">>), Str(<<"5","0","0">>),
                    Str(<<"5","0","1">>), Str(<<"1","e","3">>), Str(<<"-","1">>),
                    Str(<<"1",".","5">>), Str(<<"x">>)}

\* A user with more matches than GET /me/matches ever lists: U1 matched one
\* problem per tick, MaxLimit + 1 of them, and now matches and unmatches one
\* more while listing its matches.
InitMany ==
    /\ InitStoreAt({U1}, {P1} \cup CrowdProblems, -(MaxLimit + 2))
    /\ issued = {JwtSign(Str(U1), 0)}
    /\ problem_matches =
         SetToBag({Row(UuidIn(U1), UuidIn(CrowdProblem(n)),
                       IF n % 2 = 0 THEN SOLVER ELSE AFFECTED, -n) :
                      n \in 1..(MaxLimit + 1)})

NextMany ==
    \/ \E h \in GoodHeaders, role \in GoodRoles : SetMatchBegin(h, P1, role, 1)
    \/ \E req \in BagToSet(inflight) : SetMatchSelect(req)
    \/ \E req \in BagToSet(pending) : SetMatchUpsert(req)
    \/ \E h \in GoodHeaders : RemoveMatchBegin(h, P1, 1)
    \/ \E req \in BagToSet(inflight) : RemoveMatchDelete(req)
    \/ TickDb
    \/ \E h \in GoodHeaders, limit \in ManyLimitInputs : ListMyMatchesBegin(h, limit, 1)
    \/ \E req \in BagToSet(inflight) : ListMyMatchesSelect(req)

SpecMany == InitMany /\ [][NextMany]_vars

\* ========================================================================
\* Properties
\* ========================================================================

AllRows == BagToSet(problem_matches)
RowsOf(userText, problemText) == PairRows(problem_matches, UuidIn(userText), UuidIn(problemText))
SetMatchDone == resp.op = "setMatch" /\ resp.status = 200

\* C1: under any interleaving of setMatch and removeMatch requests from any
\* users, problem_matches holds at most one row per (user_id, problem_id).
C1_OneRowPerPair ==
    \A r \in AllRows :
        BagCardinality(PairRows(problem_matches, r.user_id, r.problem_id)) <= 1

\* an upsert has just hit an existing row while another request was in flight,
\* and both users hold a match
C1_Witness ==
    /\ SetMatchDone
    /\ before # EmptyBag
    /\ pending # EmptyBag
    /\ BagCardinality(problem_matches) = 2

\* user userText has an entry in the items of a collaborators listing
Listed(items, userText) ==
    \E i \in DOMAIN items : items[i].user.id = UuidOut(UuidIn(userText))

\* and the entry shows this role
ListedAs(items, userText, role) ==
    \E i \in DOMAIN items : /\ items[i].user.id = UuidOut(UuidIn(userText))
                            /\ items[i].role = role

\* the number of rows other users hold on the problem of row r that satisfy Keep
Others(r, Keep(_)) ==
    BagCardinality(Restrict(problem_matches,
                            LAMBDA x : /\ x.problem_id = r.problem_id
                                       /\ x.user_id # r.user_id
                                       /\ Keep(x)))

\* C2 as stated: after a successful setMatch(U, P, role) exactly one row
\* exists for (U, P), its role is the role of that (latest) call, and a
\* following listCollaborators(P) contains an entry for U with that role.
C2_AlwaysListed ==
    SetMatchDone =>
        /\ BagCardinality(RowsOf(resp.userId, resp.problemId)) = 1
        /\ \A r \in BagToSet(RowsOf(resp.userId, resp.problemId)) : r.role = resp.role.s
        /\ \A items \in CollaboratorItems(resp.problemId, Undefined) :
             ListedAs(items, resp.userId, resp.role.s)

\* C2 amended: after a successful setMatch(U, P, role) exactly one row exists
\* for (U, P) and its role is the role of that (latest) call. A following
\* listCollaborators(P) holds the 500 most recently matched rows of P: it has
\* an entry for U, with that role, when fewer than 500 other rows of P were
\* matched at or after the match time of U's row, and no entry for U when 500
\* or more were matched after it. A role change keeps the match time of the
\* row, so it does not bring U back into the listing.
C2_LastWriteWins ==
    SetMatchDone =>
        /\ BagCardinality(RowsOf(resp.userId, resp.problemId)) = 1
        /\ \A r \in BagToSet(RowsOf(resp.userId, resp.problemId)) :
             /\ r.role = resp.role.s
             /\ \A items \in CollaboratorItems(resp.problemId, Undefined) :
                  /\ Len(items) <= CollaboratorLimit
                  /\ Others(r, LAMBDA x : x.created_at >= r.created_at) < CollaboratorLimit
                        => ListedAs(items, resp.userId, resp.role.s)
                  /\ Others(r, LAMBDA x : x.created_at > r.created_at) >= CollaboratorLimit
                        => ~Listed(items, resp.userId)
                  /\ Listed(items, resp.userId)
                        => ListedAs(items, resp.userId, resp.role.s)

\* SOLVER then AFFECTED on a problem with more collaborators than the listing
\* holds: the second call has just replaced the role, and the listing, full
\* to its limit, shows the user with it
C2_Witness ==
    /\ SetMatchDone
    /\ resp.role = Str(AFFECTED)
    /\ \E r \in BagToSet(before) : r.role = SOLVER
    /\ \E r \in BagToSet(RowsOf(resp.userId, resp.problemId)) :
         /\ r.role = AFFECTED
         /\ Others(r, LAMBDA x : TRUE) >= CollaboratorLimit
    /\ \A items \in CollaboratorItems(resp.problemId, Undefined) :
         /\ Len(items) = CollaboratorLimit
         /\ ListedAs(items, resp.userId, AFFECTED)

\* C3: however concurrent setMatch requests for one pair interleave, the pair
\* has exactly one row, and its role is the role of the upsert the store
\* applied last.
C3_LastUpsertWins ==
    \A w \in written :
        /\ BagCardinality(PairRows(problem_matches, w.pair.user_id, w.pair.problem_id)) = 1
        /\ \A r \in BagToSet(PairRows(problem_matches, w.pair.user_id, w.pair.problem_id)) :
             r.role = w.role

\* two requests for the pair with different roles were in flight together; one
\* upsert has been applied on top of an existing row, the other is still to come
C3_Witness ==
    /\ SetMatchDone
    /\ before # EmptyBag
    /\ \E req \in BagToSet(pending) :
         /\ UuidIn(req.userId) = UuidIn(resp.userId)
         /\ UuidIn(req.problemId) = UuidIn(resp.problemId)
         /\ req.role # resp.role
    /\ \E w \in written : w.pair = Pair(UuidIn(resp.userId), UuidIn(resp.problemId))
                            /\ w.role = resp.role.s

\* C8: every Match row references an existing Identity and an existing
\* Problem, whatever is deleted and whenever.
C8_ParentsExist ==
    \A r \in AllRows : r.user_id \in users /\ r.problem_id \in problems

\* an upsert has just been refused because a parent was gone: the user of a
\* token that still verifies had been deleted
C8_Witness ==
    /\ resp.op = "setMatch"
    /\ resp.status = 500
    /\ UuidIn(resp.userId) \notin users
    /\ \E t \in issued : t.sub.s = resp.userId /\ ~JwtVerifyThrows(t, clock)

\* C9 as stated: a setMatch that finds a row for the pair leaves the row with
\* the time of this setMatch as its created_at.
C9_TimestampOverwritten ==
    (SetMatchDone /\ before # EmptyBag) =>
        \A r \in BagToSet(RowsOf(resp.userId, resp.problemId)) : r.created_at = dbNow

\* C9 amended: a setMatch that finds a row for the pair overwrites the row's
\* role and nothing else: created_at (reported as matched_at) stays the time of
\* the original match.
C9_TimestampKept ==
    (SetMatchDone /\ before # EmptyBag) =>
        \A old \in BagToSet(before) :
            /\ RowsOf(resp.userId, resp.problemId) = SetToBag({[old EXCEPT !.role = resp.role.s]})
            /\ resp.match.created_at = old.created_at
            /\ resp.match.role = resp.role.s

\* the role of a match made earlier has just been changed
C9_Witness ==
    /\ SetMatchDone
    /\ \E old \in BagToSet(before) : old.role # resp.role.s /\ old.created_at < dbNow
    /\ resp.match.created_at < dbNow

\* C4: removeMatch(U, P) with a UUID-shaped P answers ok whether or not a row
\* or the problem exists; afterwards (U, P) has no row, and a repetition gives
\* the same answer and leaves the same table.
C4_RemoveIdempotent ==
    resp.op = "removeMatch" =>
        /\ (resp.userId # <<>> /\ UuidPattern(resp.problemId)) => resp.status = 200
        /\ resp.status = 200 =>
             /\ RowsOf(resp.userId, resp.problemId) = EmptyBag
             /\ DeleteRows(problem_matches, UuidIn(resp.userId), UuidIn(resp.problemId))
                  = problem_matches
             /\ \A h \in GoodHeaders :
                  (h.token.sub.s = resp.userId /\ requireAuth(h, clock).ok)
                     => RemoveMatchStatus(h, resp.problemId) = 0

\* a removal of a match that was not there, for a problem that does not exist,
\* has just answered ok
C4_Witness ==
    /\ resp.op = "removeMatch"
    /\ resp.status = 200
    /\ before = EmptyBag
    /\ resp.problemId = GhostProblem
    /\ problem_matches # EmptyBag

\* C5: an authenticated setMatch changes problem_matches only when the id is
\* UUID-shaped, the role is exactly SOLVER or AFFECTED and the problem exists;
\* otherwise it answers 400 (shape, role) or 404 (no such problem), and every
\* setMatch that does not answer 200 leaves the table as it was.
C5_SetMatchValidation ==
    [][resp'.op = "setMatch" =>
         LET authed == resp'.userId # <<>>
             shapeOk == UuidPattern(resp'.problemId)
             roleOk == resp'.role = Str(SOLVER) \/ resp'.role = Str(AFFECTED)
             exists == shapeOk /\ ParseUuid(resp'.problemId) \in problems'
         IN /\ (authed /\ (~shapeOk \/ ~roleOk)) => resp'.status = 400
            /\ (authed /\ shapeOk /\ roleOk /\ ~exists) => resp'.status = 404
            /\ resp'.status \in {400, 404} => authed
            /\ resp'.status # 200 => problem_matches' = problem_matches
            /\ problem_matches' # problem_matches =>
                 authed /\ shapeOk /\ roleOk /\ exists /\ resp'.status = 200
      ]_vars

\* a setMatch for a problem that does not exist has answered 404 with matches
\* in the table
C5_Witness ==
    /\ resp.op = "setMatch"
    /\ resp.status = 404
    /\ resp.problemId = GhostProblem
    /\ problem_matches # EmptyBag

BearerShaped(h) == h.present /\ toLowerCase(h.scheme) = toLowerCase(BearerWord) /\ h.spaces >= 1
UuidSubject(t) == t.sub.t = "string" /\ UuidPattern(t.sub.s)

\* the header carries a token that verifies at the time `now`
GoodHeader(h, now) ==
    /\ BearerShaped(h)
    /\ h.token.wellFormed
    /\ h.token.sig = "good"
    /\ now < h.token.exp
    /\ UuidSubject(h.token)

\* r has just been added to the bag of requests in flight
Entered(r) == CopiesIn(r, inflight') > CopiesIn(r, inflight)

\* C6: the token login returns for an existing user is accepted by requireAuth
\* on /me while it is unexpired and yields the user id given at login; a token
\* that is tampered, expired, missing or malformed in the header, or whose
\* subject is no uuid, gets 401 and the handler does not run: the select of
\* /me runs, and answers, only for requests requireAuth has accepted.
C6_TokenVerification ==
    /\ [](/\ (resp.op = "login" /\ resp.status = 200) =>
                /\ resp.token \in issued
                /\ resp.token.sub = resp.userId
                /\ requireAuth(Header(BearerWord, 1, resp.token), clock).ok
          /\ \A t \in issued : clock < t.exp =>
                /\ requireAuth(Header(BearerWord, 1, t), clock).ok
                /\ requireAuth(Header(BearerWord, 1, t), clock).userId = t.sub
          /\ \A h \in AuthHeaders : ~GoodHeader(h, clock) =>
                /\ ~requireAuth(h, clock).ok
                /\ requireAuth(h, clock).status = 401)
    /\ [][/\ (resp'.op = "me" /\ resp'.status = 401) =>
                /\ ~GoodHeader(resp'.header, clock)
                /\ inflight' = inflight
                /\ DOMAIN resp' = {"op", "header", "status"}
          /\ \A r \in BagToSet(inflight') : (r.op = "me" /\ Entered(r)) =>
                /\ GoodHeader(r.header, clock)
                /\ r.userId = r.header.token.sub
                /\ resp'.op = "none"
          /\ (resp'.op = "me" /\ resp'.status # 401) =>
                /\ \E r \in BagToSet(inflight) :
                      /\ r.op = "me"
                      /\ r.header = resp'.header
                      /\ inflight' = inflight (-) SetToBag({r})
                /\ resp'.userId = resp'.header.token.sub
                /\ resp'.status \in {200, 404}
                /\ resp'.status = 200 <=> ParseUuid(resp'.userId.s) \in users
                /\ resp'.status = 200 => resp'.user = PrintUuid(ParseUuid(resp'.userId.s))
         ]_vars

\* a token issued on day 1 has just been accepted on day 30, its last day
C6_Witness ==
    /\ resp.op = "me"
    /\ resp.status = 200
    /\ resp.header.token \in issued
    /\ clock = ExpiresIn
    /\ resp.header.token.exp = clock + 1

\* C7: login signs a token only for a UUID-shaped userId that identifies an
\* identity, one the handler's select on users finds; any other shape gets
\* 400, a UUID-shaped id without identity gets 404, and neither issues a
\* token.
C7_LoginValidation ==
    [][/\ (resp'.op = "login" /\ resp'.status # 200) =>
             LET v == resp'.userId
                 shaped == v.t = "string" /\ UuidPattern(v.s)
                 known == shaped /\ ParseUuid(v.s) \in users
             IN /\ ~shaped <=> resp'.status = 400
                /\ (shaped /\ ~known) <=> resp'.status = 404
                /\ issued' = issued
                /\ inflight' = inflight
                /\ DOMAIN resp' = {"op", "userId", "status"}
       /\ \A r \in BagToSet(inflight') : (r.op = "login" /\ Entered(r)) =>
             /\ r.userId.t = "string"
             /\ UuidPattern(r.userId.s)
             /\ ParseUuid(r.userId.s) \in users
             /\ r.user = PrintUuid(ParseUuid(r.userId.s))
             /\ issued' = issued
             /\ resp'.op = "none"
       /\ (resp'.op = "login" /\ resp'.status = 200) =>
             /\ \E r \in BagToSet(inflight) :
                   /\ r.op = "login"
                   /\ r.userId = resp'.userId
                   /\ r.user = resp'.user
                   /\ inflight' = inflight (-) SetToBag({r})
             /\ resp'.token.sub = resp'.userId
             /\ issued' = issued \cup {resp'.token}
      ]_vars

\* login with the id of a user who has been deleted has just answered 404
C7_Witness ==
    /\ resp.op = "login"
    /\ resp.status = 404
    /\ resp.userId \in {Str(U1), Str(U2)}
    /\ issued # {}

\* what the listing of resp is measured against: the rows of its user now
ListedUserRows == Restrict(problem_matches, LAMBDA r : r.user_id = UuidIn(resp.userId))

RecentFirst(items) ==
    \A i, j \in DOMAIN items : i < j => items[i].matched_at >= items[j].matched_at

\* each item is at least as recent as the one after it
InOrder(items) ==
    \A i \in DOMAIN items : i < Len(items) => items[i].matched_at >= items[i + 1].matched_at

\* the items are distinct rows of the user, and no row left out is more recent
\* than the last one shown
LatestOf(items, rows) ==
    LET all == {MatchItem(r) : r \in BagToSet(rows)}
        kept == {items[i] : i \in DOMAIN items} IN
    /\ Cardinality(kept) = Len(items)
    /\ kept \subseteq all
    /\ items # <<>> => \A x \in all \ kept : x.matched_at <= items[Len(items)].matched_at

\* the limit of the request is a number of rows: absent, or a whole number
\* that is not negative
CountsRows(limitQuery) ==
    \/ limitQuery.t = "undefined"
    \/ /\ limitQuery.t = "string"
       /\ Number(limitQuery.s).kind = "int"
       /\ Number(limitQuery.s).v >= 0

\* L of the claim: 200 without a limit, min(limit, 500) with one
StatedLimit(limitQuery) ==
    IF limitQuery.t = "undefined" THEN 200 ELSE Min(Number(limitQuery.s).v, 500)

ListedAsStated ==
    /\ resp.status = 200
    /\ Len(resp.items) = Min(StatedLimit(resp.limit), BagCardinality(ListedUserRows))
    /\ InOrder(resp.items)
    /\ LatestOf(resp.items, ListedUserRows)

\* C10 as stated: listMyMatches(U, limit) returns exactly min(L, number of U's
\* rows) rows, L being 200 without a limit and min(limit, 500) with one, and
\* they are U's most recent matches, most recent first; and for every limit
\* value supplied the response never holds more than 500 rows. The count is
\* asked only of a limit that is a number of rows, the bound of 500 of every
\* limit.
C10_LimitAsStated ==
    (resp.op = "listMyMatches" /\ resp.userId # <<>>) =>
        /\ CountsRows(resp.limit) => ListedAsStated
        /\ resp.status = 200 => Len(resp.items) <= 500

\* what the collaborators listing of resp is measured against: the rows of its
\* problem now
ListedProblemRows ==
    Restrict(problem_matches, LAMBDA r : r.problem_id = UuidIn(resp.problemId))

\* every item is a row of the listed problem, and no row is shown twice
OnlyRowsOf(items, rows) ==
    /\ \A i, j \in DOMAIN items : i # j => items[i].user.id # items[j].user.id
    /\ \A i \in DOMAIN items :
         \E r \in BagToSet(rows) :
            /\ PrintUuid(r.user_id) = items[i].user.id
            /\ r.role = items[i].role
            /\ r.created_at = items[i].matched_at

\* the listing of resp against the filter `role` (<<>>: no filter): only rows
\* of the problem, most recent first; with a filter only rows of that role,
\* without one every row of the problem, whatever its role
ListedUnder(role) ==
    /\ resp.status = 200
    /\ OnlyRowsOf(resp.items, ListedProblemRows)
    /\ RecentFirst(resp.items)
    /\ IF role # <<>>
       THEN \A i \in DOMAIN resp.items : resp.items[i].role = role
       ELSE Len(resp.items) = BagCardinality(ListedProblemRows)

\* the filter as the claim words it: the value itself, in any letter case
StatedRoleFilter(roleQuery) ==
    IF roleQuery.t = "string" /\ toUpperCase(roleQuery.s) \in Roles
    THEN toUpperCase(roleQuery.s) ELSE <<>>

\* the filter with surrounding whitespace set aside first
TrimmedRoleFilter(roleQuery) ==
    IF roleQuery.t = "string" /\ toUpperCase(trim(roleQuery.s)) \in Roles
    THEN toUpperCase(trim(roleQuery.s)) ELSE <<>>

\* C11 as stated: listCollaborators(P, roleFilter) returns only rows of P, most
\* recent first; a roleFilter equal to SOLVER or AFFECTED in any letter case
\* keeps only rows of that role, and every other value is ignored: rows of
\* both roles are returned.
C11_FilterAsStated ==
    (resp.op = "listCollaborators" /\ isUuid(Str(resp.problemId)))
    => ListedUnder(StatedRoleFilter(resp.roleQuery))

\* C11 amended: listCollaborators(P, roleFilter) returns only rows of P, most
\* recent first; a roleFilter that, with surrounding whitespace removed, equals
\* SOLVER or AFFECTED in any letter case keeps only rows of that role; absent
\* or any other value it is ignored, rows of both roles are returned, and the
\* answer is no error.
C11_FilterTrimmed ==
    (resp.op = "listCollaborators" /\ isUuid(Str(resp.problemId)))
    => ListedUnder(TrimmedRoleFilter(resp.roleQuery))

\* role=solver has just listed the one SOLVER row of a problem that also has
\* a more recent AFFECTED row
C11_Witness ==
    /\ resp.op = "listCollaborators"
    /\ resp.status = 200
    /\ resp.roleQuery = Str(toLowerCase(SOLVER))
    /\ Len(resp.items) = 1
    /\ resp.items[1].role = SOLVER
    /\ \E r \in BagToSet(ListedProblemRows) :
         r.role = AFFECTED /\ r.created_at > resp.items[1].matched_at

\* the row of ProblemRows an item of GET /problems shows
ItemRow(item) == ProblemRows[UuidIn(item.id)]

\* text contains x, letter case set aside, x taken as it is written
ContainsCI(text, x) == Contains(lower(text), lower(x))

\* C12: for every search string X (trimmed, as every filter is),
\* GET /problems?search=X returns only problems whose title or description
\* contains X as a case-insensitive literal substring, and with a category
\* every returned problem also has exactly that category.
C12_SearchLiteral ==
    (resp.op = "searchProblems" /\ resp.status = 200)
    => \A i \in DOMAIN resp.items :
          /\ \/ ContainsCI(ItemRow(resp.items[i]).title, Trimmed(resp.search))
             \/ ContainsCI(ItemRow(resp.items[i]).description, Trimmed(resp.search))
          /\ Trimmed(resp.category) # <<>> =>
                ItemRow(resp.items[i]).category = Trimmed(resp.category)

\* the three tables
store == <<users, problems, problem_matches>>

\* C13 as stated: every operation is one query and so one atomic step: while a
\* request is between its read and its write, no other request's write takes
\* effect.
C13_SingleAtomicStep ==
    [][((\E req \in BagToSet(pending) : BagIn(req, pending')) /\ resp'.op # "none")
          => problem_matches' = problem_matches]_vars

\* C13 amended: setMatch issues two queries, the select on problems and then
\* the upsert, and other writes may take effect in between. The first query
\* only reads and sends no response; only the last query of a request writes,
\* and the write is whole: a request that does not answer 200 leaves the
\* tables as they were, a setMatch answers 500 only when a parent of its row
\* was deleted after its check, and one answering 200 leaves a single row for
\* its pair and every other pair's rows untouched.
C13_LastQueryWrites ==
    [][/\ (\/ BagCardinality(pending') > BagCardinality(pending)
           \/ BagCardinality(inflight') > BagCardinality(inflight))
            => (store' = store /\ resp'.op = "none")
       /\ (resp'.op # "none" /\ resp'.status # 200) => store' = store
       /\ (resp'.op = "setMatch" /\ resp'.status = 500) =>
             /\ BagCardinality(pending') < BagCardinality(pending)
             /\ \/ UuidIn(resp'.userId) \notin users
                \/ UuidIn(resp'.problemId) \notin problems
       /\ (resp'.op = "setMatch" /\ resp'.status = 200) =>
             /\ BagCardinality(pending') < BagCardinality(pending)
             /\ BagCardinality(PairRows(problem_matches', UuidIn(resp'.userId),
                                        UuidIn(resp'.problemId))) = 1
             /\ DeleteRows(problem_matches', UuidIn(resp'.userId), UuidIn(resp'.problemId))
                  = DeleteRows(problem_matches, UuidIn(resp'.userId),
                               UuidIn(resp'.problemId))
      ]_vars

\* a setMatch whose problem (and user) the seed script deleted between its two
\* queries has answered 500 while another setMatch is still between its own
C13_Witness ==
    /\ resp.op = "setMatch"
    /\ resp.status = 500
    /\ UuidIn(resp.problemId) \notin problems
    /\ pending # EmptyBag

\* the rows of t that belong to users other than the one named by userText
\* (every row when the request carried no valid token)
OthersRows(t, userText) ==
    IF userText = <<>> THEN t
    ELSE Restrict(t, LAMBDA r : r.user_id # UuidIn(userText))

\* C14: a setMatch or removeMatch authenticated as U creates, changes or
\* deletes only rows whose user_id is U; every other user's rows (existence,
\* role, created_at) are the same before and after, whatever problem id and
\* body the request carries.
C14_OthersUntouched ==
    [][resp'.op \in {"setMatch", "removeMatch"} =>
         OthersRows(problem_matches', resp'.userId) = OthersRows(problem_matches, resp'.userId)
      ]_vars

\* a removeMatch has just deleted its user's row for a problem, and another
\* user's row for the same problem is still there
C14_Witness ==
    /\ resp.op = "removeMatch"
    /\ resp.status = 200
    /\ before # EmptyBag
    /\ \E r \in AllRows : /\ r.problem_id = UuidIn(resp.problemId)
                          /\ r.user_id # UuidIn(resp.userId)

====
